---- MODULE Spec2Model ----
(***************************************************************************)
(* Matching and lifecycle core of the intraday market simulator:           *)
(*   - ProductAwareOrderBook / MultiProductMarketOperator (multi-product)  *)
(*   - OrderBook / MarketOperator (single-product)                         *)
(* A run constructs one of the two operators (variable engine) and then    *)
(* calls its operations with arbitrary arguments drawn from bounded sets.  *)
(***************************************************************************)
EXTENDS Integers, Sequences, FiniteSets, TLC

(***************************************************************************)
(* Bounds of the model                                                     *)
(***************************************************************************)
\* number of orders an operator accepts in one run
MaxOrders == 3
\* limit prices are 1..MaxPrice
MaxPrice == 2
\* submitted volumes are 1..MaxVolume
MaxVolume == 2
\* ticks are 0..MaxT
MaxT == 3

Prices == 1..MaxPrice
Volumes == 1..MaxVolume
Ticks == 0..MaxT
AgentIds == {1, 2}
ProductIds == {0, 1}
\* the product ids a submitter may name: the catalog's and one that is not in it
OrderProductIds == ProductIds \cup {9}
\* the id a submitter writes into an order before handing it over (it collides
\* with an id the operator assigns)
SubmittedIds == {1}

BUY == "BUY"
SELL == "SELL"
GTC == "GTC"
IOC == "IOC"
PENDING == "pending"
OPEN == "open"
CLOSED == "closed"
SETTLED == "settled"

(***************************************************************************)
(* Python values                                                           *)
(***************************************************************************)
\* Optional[Order]: the absent order
None == [id |-> -2, agent_id |-> -2, side |-> "None", price |-> 0, volume |-> 0,
         product_id |-> -2, time_in_force |-> "None", timestamp |-> -2]
\* Optional[int] product_id = None
NoProductId == -1

Max(S) == CHOOSE x \in S : \A y \in S : y <= x
Min(S) == CHOOSE x \in S : \A y \in S : x <= y
min(a, b) == IF a <= b THEN a ELSE b

\* dict operations: a dict is a function whose DOMAIN is its key set
EmptyDict == << >>
DictSet(d, k, v) == [x \in (DOMAIN d) \cup {k} |-> IF x = k THEN v ELSE d[x]]
DictDel(d, k) == [x \in (DOMAIN d) \ {k} |-> d[x]]
DictGet(d, k, default) == IF k \in DOMAIN d THEN d[k] ELSE default

\* list.remove(x): drops the first element equal to x
ListRemove(level, x) ==
    IF \E i \in 1..Len(level) : level[i] = x
    THEN LET i == CHOOSE i \in 1..Len(level) :
                      /\ level[i] = x
                      /\ \A j \in 1..(i - 1) : level[j] # x
         IN SubSeq(level, 1, i - 1) \o SubSeq(level, i + 1, Len(level))
    ELSE level

\* a filter that hands back the kept orders last-in first
RECURSIVE FilterOutAgent_back(_, _)
FilterOutAgent_back(level, agent_id) ==
    IF level = << >> THEN << >>
    ELSE IF Head(level).agent_id # agent_id
         THEN FilterOutAgent_back(Tail(level), agent_id) \o <<Head(level)>>
         ELSE FilterOutAgent_back(Tail(level), agent_id)

\* [o for o in level if o.agent_id != agent_id]
RECURSIVE FilterOutAgent(_, _)
FilterOutAgent(level, agent_id) ==
    IF level = << >> THEN << >>
    ELSE IF Head(level).agent_id # agent_id
         THEN <<Head(level)>> \o FilterOutAgent(Tail(level), agent_id)
         ELSE FilterOutAgent(Tail(level), agent_id)

(***************************************************************************)
(* Product (core/product.py)                                               *)
(***************************************************************************)
Product(product_id, gate_open, gate_close, delivery_start, delivery_end) ==
    [product_id |-> product_id, delivery_start |-> delivery_start,
     delivery_end |-> delivery_end, gate_open |-> gate_open,
     gate_close |-> gate_close, duration |-> 15, da_price |-> 1,
     status |-> PENDING]

\* the catalog handed to from_products: product 0 trades in [0, 1) and delivers
\* in [2, 3), product 1 trades in [1, 2) and delivers in [2, 3)
Catalog == [p \in ProductIds |->
              IF p = 0 THEN Product(0, 0, 1, 2, 3) ELSE Product(1, 1, 2, 2, 3)]

\* Product.is_open
Product_is_open(product, t) == product.gate_open <= t /\ t < product.gate_close

\* Product.update_status: a new snapshot with the status replaced
update_status(product, new_status) == [product EXCEPT !.status = new_status]

(***************************************************************************)
(* ProductAwareOrderBook (core/product_aware_order_book.py)                *)
(***************************************************************************)
ProductAwareOrderBook(product) ==
    [product |-> product, bids |-> EmptyDict, asks |-> EmptyDict]

\* a book that looks at the trading window and not at the product's status
is_open_window(ob, t) == Product_is_open(ob.product, t)

\* ProductAwareOrderBook.is_open
is_open(ob, t) == ob.product.status = OPEN /\ Product_is_open(ob.product, t)

\* an insertion that puts the newcomer at the head of its price level
add_order_front(ob, order) ==
    IF order.side = BUY
    THEN [ob EXCEPT !.bids = DictSet(@, order.price,
                                   <<order>> \o DictGet(@, order.price, << >>))]
    ELSE [ob EXCEPT !.asks = DictSet(@, order.price,
                                   <<order>> \o DictGet(@, order.price, << >>))]

\* ProductAwareOrderBook.add_order (validate_time = False)
add_order(ob, order) ==
    IF order.side = BUY
    THEN [ob EXCEPT !.bids = DictSet(@, order.price,
                                   Append(DictGet(@, order.price, << >>), order))]
    ELSE [ob EXCEPT !.asks = DictSet(@, order.price,
                                   Append(DictGet(@, order.price, << >>), order))]

\* the effect of remove_order on one side's dict
\* a removal that leaves the emptied price level in the dict
RemoveFromSide_keep(side, order) ==
    LET level == ListRemove(DictGet(side, order.price, << >>), order)
    IN IF order.price \in DOMAIN side
       THEN DictSet(side, order.price, level)
       ELSE side

RemoveFromSide(side, order) ==
    LET level == ListRemove(DictGet(side, order.price, << >>), order)
    IN IF order.price \in DOMAIN side
       THEN IF level = << >> THEN DictDel(side, order.price)
            ELSE DictSet(side, order.price, level)
       ELSE side

\* ProductAwareOrderBook.remove_order
remove_order(ob, order) ==
    IF order.side = BUY
    THEN [ob EXCEPT !.bids = RemoveFromSide(@, order)]
    ELSE [ob EXCEPT !.asks = RemoveFromSide(@, order)]

\* the effect of remove_orders_by_agent on one side's dict
RemoveAgentFromSide(side, agent_id) ==
    LET kept == {p \in DOMAIN side : FilterOutAgent(side[p], agent_id) # << >>}
    IN [p \in kept |-> FilterOutAgent(side[p], agent_id)]

SideLen(side) ==
    LET RECURSIVE S(_)
        S(ps) == IF ps = {} THEN 0
                 ELSE LET p == CHOOSE p \in ps : TRUE
                      IN Len(side[p]) + S(ps \ {p})
    IN S(DOMAIN side)

\* ProductAwareOrderBook.__len__
BookLen(ob) == SideLen(ob.bids) + SideLen(ob.asks)

\* a removal that forgets the asks
remove_orders_by_agent_bids(ob, agent_id) ==
    LET ob2 == [ob EXCEPT !.bids = RemoveAgentFromSide(@, agent_id)]
    IN [ob |-> ob2, removed_count |-> BookLen(ob) - BookLen(ob2)]

\* ProductAwareOrderBook.remove_orders_by_agent: the book and the count
remove_orders_by_agent(ob, agent_id) ==
    LET ob2 == [ob EXCEPT !.bids = RemoveAgentFromSide(@, agent_id),
                          !.asks = RemoveAgentFromSide(@, agent_id)]
    IN [ob |-> ob2, removed_count |-> BookLen(ob) - BookLen(ob2)]

\* a gate close that counts the resting orders and leaves them in the book
clear_all_orders_keep(ob) == [ob |-> ob, count |-> BookLen(ob)]

\* ProductAwareOrderBook.clear_all_orders: the book and the count
clear_all_orders(ob) ==
    [ob |-> [ob EXCEPT !.bids = EmptyDict, !.asks = EmptyDict],
     count |-> BookLen(ob)]

\* a lookup that takes the lowest bid level for the best one
best_bid_lowest(ob) ==
    IF DOMAIN ob.bids = {} THEN None
    ELSE LET level == ob.bids[Min(DOMAIN ob.bids)]
         IN IF level # << >> THEN level[1] ELSE None

\* ProductAwareOrderBook.best_bid
best_bid(ob) ==
    IF DOMAIN ob.bids = {} THEN None
    ELSE LET level == ob.bids[Max(DOMAIN ob.bids)]
         IN IF level # << >> THEN level[1] ELSE None

\* ProductAwareOrderBook.best_ask
best_ask(ob) ==
    IF DOMAIN ob.asks = {} THEN None
    ELSE LET level == ob.asks[Min(DOMAIN ob.asks)]
         IN IF level # << >> THEN level[1] ELSE None

(***************************************************************************)
(* Matching (pay-as-bid)                                                   *)
(***************************************************************************)
\* a crossing test that lets a buy at exactly the ask price rest
crosses_buy_strict(incoming, resting) == incoming.price > resting.price

\* crossing condition of _match_buy: buy price >= ask price
crosses_buy(incoming, resting) == ~(incoming.price < resting.price)

\* crossing condition of _match_sell: sell price <= bid price
crosses_sell(incoming, resting) == ~(incoming.price > resting.price)

\* a fill that ignores how much the resting order has left
traded_volume_incoming(incoming, resting) == incoming.volume

\* a fill of one unit at a time
traded_volume_unit(incoming, resting) == 1

\* traded_volume = min(incoming.volume, best.volume)
traded_volume(incoming, resting) == min(incoming.volume, resting.volume)

\* a matching engine that executes at the aggressor's limit
trade_price_incoming(incoming, resting) == incoming.price

\* trade_price = best.price  (pay-as-bid)
trade_price(incoming, resting) == resting.price

\* a Trade that always names product 0
Trade_buy_first(ob, incoming, resting, t) ==
    [product_id |-> 0,
     price |-> trade_price(incoming, resting),
     volume |-> traded_volume(incoming, resting),
     buy_order_id |-> incoming.id, sell_order_id |-> resting.id,
     buy_agent_id |-> incoming.agent_id, sell_agent_id |-> resting.agent_id,
     time |-> t]

\* the Trade built by _match_buy
Trade_buy(ob, incoming, resting, t) ==
    [product_id |-> ob.product.product_id,
     price |-> trade_price(incoming, resting),
     volume |-> traded_volume(incoming, resting),
     buy_order_id |-> incoming.id, sell_order_id |-> resting.id,
     buy_agent_id |-> incoming.agent_id, sell_agent_id |-> resting.agent_id,
     time |-> t]

\* the Trade built by _match_sell
Trade_sell(ob, incoming, resting, t) ==
    [product_id |-> ob.product.product_id,
     price |-> trade_price(incoming, resting),
     volume |-> traded_volume(incoming, resting),
     buy_order_id |-> resting.id, sell_order_id |-> incoming.id,
     buy_agent_id |-> resting.agent_id, sell_agent_id |-> incoming.agent_id,
     time |-> t]

\* "Remove filled resting order": the resting order is dropped once its volume is <= 0
is_filled(resting) == resting.volume <= 0

\* ProductAwareOrderBook._match_buy; the loop as a recursion over
\* (book, incoming order, trades so far)
RECURSIVE _match_buy(_, _, _, _)
_match_buy(ob, incoming, trades, t) ==
    LET done == [ob |-> ob, incoming |-> incoming, trades |-> trades]
        resting == best_ask(ob)
    IN IF ~(incoming.volume > 0) THEN done
       ELSE IF resting = None THEN done
       ELSE IF ~crosses_buy(incoming, resting) THEN done
       ELSE LET trade == Trade_buy(ob, incoming, resting, t)
                incoming2 == [incoming EXCEPT !.volume = @ - trade.volume]
                resting2 == [resting EXCEPT !.volume = @ - trade.volume]
                ob2 == [ob EXCEPT !.asks[resting.price][1] = resting2]
                ob3 == IF is_filled(resting2) THEN remove_order(ob2, resting2) ELSE ob2
            IN _match_buy(ob3, incoming2, Append(trades, trade), t)

\* ProductAwareOrderBook._match_sell
RECURSIVE _match_sell(_, _, _, _)
_match_sell(ob, incoming, trades, t) ==
    LET done == [ob |-> ob, incoming |-> incoming, trades |-> trades]
        resting == best_bid(ob)
    IN IF ~(incoming.volume > 0) THEN done
       ELSE IF resting = None THEN done
       ELSE IF ~crosses_sell(incoming, resting) THEN done
       ELSE LET trade == Trade_sell(ob, incoming, resting, t)
                incoming2 == [incoming EXCEPT !.volume = @ - trade.volume]
                resting2 == [resting EXCEPT !.volume = @ - trade.volume]
                ob2 == [ob EXCEPT !.bids[resting.price][1] = resting2]
                ob3 == IF is_filled(resting2) THEN remove_order(ob2, resting2) ELSE ob2
            IN _match_sell(ob3, incoming2, Append(trades, trade), t)

\* ProductAwareOrderBook.match_order
match_order(ob, incoming, t) ==
    IF incoming.side = BUY THEN _match_buy(ob, incoming, << >>, t)
    ELSE _match_sell(ob, incoming, << >>, t)

(***************************************************************************)
(* MultiProductMarketOperator (core/multi_product_market_operator.py)      *)
(***************************************************************************)
VARIABLES
    engine,         \* which operator this run constructed: "multi" or "single"
    products,       \* MultiProductMarketOperator.products
    order_books,    \* MultiProductMarketOperator.order_books
    next_order_id,  \* MultiProductMarketOperator.next_order_id
    order_book,     \* MarketOperator.order_book
    mo_trades,      \* MarketOperator.trades
    next_trade_id,  \* MarketOperator._next_trade_id
    last,           \* the last call: its arguments, its outcome and what it returned
    sim,            \* run_multi_product_simulation: its locals, agents and position
    settlement      \* one call of settle_products: its arguments and what it returned

multi_vars == <<products, order_books, next_order_id>>
single_vars == <<order_book, mo_trades, next_trade_id>>
driver_vars == <<sim, settlement>>
vars == <<engine, multi_vars, single_vars, last, driver_vars>>

\* no simulation run and no settlement call in this run
Idle == [pc |-> "idle"]

\* the operator object
self == [products |-> products, order_books |-> order_books,
         next_order_id |-> next_order_id]

\* MultiProductMarketOperator.from_products
from_products(catalog) ==
    [products |-> catalog,
     order_books |-> [p \in DOMAIN catalog |-> ProductAwareOrderBook(catalog[p])],
     next_order_id |-> 1]

\* list of the product ids of a set, in catalog (dict insertion) order
RECURSIVE IdList(_)
IdList(S) == IF S = {} THEN << >> ELSE <<Min(S)>> \o IdList(S \ {Min(S)})

\* a status update that closes a product whose gate closed while it was pending
new_status_skip(product, t) ==
    IF product.status = PENDING /\ t >= product.gate_close THEN CLOSED
    ELSE IF product.status = PENDING /\ t >= product.gate_open THEN OPEN
    ELSE IF product.status = OPEN /\ t >= product.gate_close THEN CLOSED
    ELSE IF product.status = CLOSED /\ t >= product.delivery_end THEN SETTLED
    ELSE ""

\* the new_status update_product_status computes for one product ("" for None)
new_status(product, t) ==
    IF product.status = PENDING /\ t >= product.gate_open THEN OPEN
    ELSE IF product.status = OPEN /\ t >= product.gate_close THEN CLOSED
    ELSE IF product.status = CLOSED /\ t >= product.delivery_end THEN SETTLED
    ELSE ""

\* MultiProductMarketOperator.update_product_status: the operator, closed_products
\* and the cancelled_count it prints for each product it closes
update_product_status(mo, t) ==
    LET ns(p) == new_status(mo.products[p], t)
        updated(p) == IF ns(p) # "" THEN update_status(mo.products[p], ns(p))
                      ELSE mo.products[p]
        cleared(p) == IF ns(p) = CLOSED THEN clear_all_orders(mo.order_books[p]).ob
                      ELSE mo.order_books[p]
    IN [mo |-> [mo EXCEPT
                  !.products = [p \in DOMAIN mo.products |-> updated(p)],
                  !.order_books = [p \in DOMAIN mo.order_books |->
                        IF ns(p) # "" THEN [cleared(p) EXCEPT !.product = updated(p)]
                        ELSE cleared(p)]],
        closed_products |-> IdList({p \in DOMAIN mo.products : ns(p) = CLOSED}),
        cancelled_count |-> [p \in DOMAIN mo.products |->
              IF ns(p) = CLOSED THEN clear_all_orders(mo.order_books[p]).count ELSE 0]]

\* an open_products that opens every Pending product, whatever the tick
open_products_early(mo, t) ==
    LET opens(p) == mo.products[p].status = PENDING
        updated(p) == update_status(mo.products[p], OPEN)
    IN [mo |-> [mo EXCEPT
                  !.products = [p \in DOMAIN mo.products |->
                        IF opens(p) THEN updated(p) ELSE mo.products[p]],
                  !.order_books = [p \in DOMAIN mo.order_books |->
                        IF opens(p) THEN [mo.order_books[p] EXCEPT !.product = updated(p)]
                        ELSE mo.order_books[p]]],
        opened |-> IdList({p \in DOMAIN mo.products : opens(p)})]

\* MultiProductMarketOperator.open_products: the operator and the opened list
open_products(mo, t) ==
    LET opens(p) == mo.products[p].status = PENDING /\ t >= mo.products[p].gate_open
        updated(p) == update_status(mo.products[p], OPEN)
    IN [mo |-> [mo EXCEPT
                  !.products = [p \in DOMAIN mo.products |->
                        IF opens(p) THEN updated(p) ELSE mo.products[p]],
                  !.order_books = [p \in DOMAIN mo.order_books |->
                        IF opens(p) THEN [mo.order_books[p] EXCEPT !.product = updated(p)]
                        ELSE mo.order_books[p]]],
        opened |-> IdList({p \in DOMAIN mo.products : opens(p)})]

\* an open-product list that looks at the status and not at the trading window
get_open_products_status(mo, t) ==
    IdList({p \in DOMAIN mo.order_books : mo.order_books[p].product.status = OPEN})

\* MultiProductMarketOperator.get_open_products
get_open_products(mo, t) ==
    IdList({p \in DOMAIN mo.order_books : is_open(mo.order_books[p], t)})

\* "Assign order ID and timestamp"
\* the order keeps the id its submitter gave it
assign_id_keep(mo, order, t) == [order EXCEPT !.timestamp = t]

assign_id(mo, order, t) == [order EXCEPT !.id = mo.next_order_id, !.timestamp = t]

\* every remainder is placed, whatever the time-in-force
rests_any_tif(order) == order.volume > 0

\* a remainder that rests even when nothing of it is left
rests_filled(order) ==
    order.volume >= 0 /\ order.time_in_force # "None" /\ order.time_in_force = GTC

\* "Add remainder to book if GTC and volume left"
rests(order) ==
    order.volume > 0 /\ order.time_in_force # "None" /\ order.time_in_force = GTC

\* validate_order_time raises unless the book is open at t
validate_order_time_raises(ob, t) == ~is_open(ob, t)

\* a process_order that assigns the id and the timestamp before it validates the
\* trading window
process_order_assign_first(mo, order, t, validate_time) ==
    IF order.product_id \notin DOMAIN mo.order_books
    THEN [mo |-> mo, order |-> order, raised |-> "ValueError", trades |-> << >>]
    ELSE IF validate_time /\ validate_order_time_raises(mo.order_books[order.product_id], t)
    THEN [mo |-> [mo EXCEPT !.next_order_id = @ + 1], order |-> assign_id(mo, order, t),
          raised |-> "ValueError", trades |-> << >>]
    ELSE LET m == match_order(mo.order_books[order.product_id], assign_id(mo, order, t), t)
             ob == IF rests(m.incoming) THEN add_order(m.ob, m.incoming) ELSE m.ob
         IN [mo |-> [mo EXCEPT !.next_order_id = @ + 1,
                               !.order_books[order.product_id] = ob],
             order |-> m.incoming, raised |-> "", trades |-> m.trades]

\* MultiProductMarketOperator.process_order: the operator after the call, the
\* caller's order object after the call, the exception raised ("" for none)
\* and the returned trades
process_order(mo, order, t, validate_time) ==
    IF order.product_id \notin DOMAIN mo.order_books
    THEN [mo |-> mo, order |-> order, raised |-> "ValueError", trades |-> << >>]
    ELSE IF validate_time /\ validate_order_time_raises(mo.order_books[order.product_id], t)
    THEN [mo |-> mo, order |-> order, raised |-> "ValueError", trades |-> << >>]
    ELSE LET m == match_order(mo.order_books[order.product_id], assign_id(mo, order, t), t)
             ob == IF rests(m.incoming) THEN add_order(m.ob, m.incoming) ELSE m.ob
         IN [mo |-> [mo EXCEPT !.next_order_id = @ + 1,
                               !.order_books[order.product_id] = ob],
             order |-> m.incoming, raised |-> "", trades |-> m.trades]

\* MultiProductMarketOperator.cancel_agent_orders: the operator and total_cancelled
cancel_agent_orders(mo, agent_id, product_id) ==
    IF product_id # NoProductId
    THEN IF product_id \in DOMAIN mo.order_books
         THEN LET r == remove_orders_by_agent(mo.order_books[product_id], agent_id)
              IN [mo |-> [mo EXCEPT !.order_books[product_id] = r.ob],
                  total_cancelled |-> r.removed_count]
         ELSE [mo |-> mo, total_cancelled |-> 0]
    ELSE LET RECURSIVE Total(_)
             Total(ps) == IF ps = {} THEN 0
                          ELSE LET p == Min(ps)
                               IN remove_orders_by_agent(mo.order_books[p], agent_id).removed_count
                                  + Total(ps \ {p})
         IN [mo |-> [mo EXCEPT !.order_books = [p \in DOMAIN mo.order_books |->
                          remove_orders_by_agent(mo.order_books[p], agent_id).ob]],
             total_cancelled |-> Total(DOMAIN mo.order_books)]

(***************************************************************************)
(* OrderBook (core/order_book.py) and MarketOperator                       *)
(* (core/market_operator.py): the single-product operator                  *)
(***************************************************************************)
\* Optional[Order] of the single-product operator: the absent order
NoneOrder == [id |-> -2, agent_id |-> -2, side |-> "None", product_id |-> -2,
              volume |-> 0, price |-> 0, time |-> -2, tif |-> "None",
              status |-> "None"]

OrderBook(product_id) ==
    [product_id |-> product_id, bids |-> EmptyDict, asks |-> EmptyDict]

\* OrderBook.add_order
OrderBook_add_order(book, order) ==
    IF order.side = BUY
    THEN [book EXCEPT !.bids = DictSet(@, order.price,
                                     Append(DictGet(@, order.price, << >>), order))]
    ELSE [book EXCEPT !.asks = DictSet(@, order.price,
                                     Append(DictGet(@, order.price, << >>), order))]

\* OrderBook.remove_order: the book, and KeyError when the level is empty and
\* the price is no key of the side
OrderBook_remove_order(book, order) ==
    LET side == IF order.side = BUY THEN book.bids ELSE book.asks
        level == ListRemove(DictGet(side, order.price, << >>), order)
        side2 == IF level = << >> THEN DictDel(side, order.price)
                 ELSE DictSet(side, order.price, level)
    IN IF level = << >> /\ order.price \notin DOMAIN side
       THEN [book |-> book, raised |-> "KeyError"]
       ELSE [book |-> IF order.side = BUY THEN [book EXCEPT !.bids = side2]
                      ELSE [book EXCEPT !.asks = side2],
             raised |-> ""]

\* OrderBook.best_bid
OrderBook_best_bid(book) ==
    IF DOMAIN book.bids = {} THEN NoneOrder
    ELSE LET level == book.bids[Max(DOMAIN book.bids)]
         IN IF level # << >> THEN level[1] ELSE NoneOrder

\* OrderBook.best_ask
OrderBook_best_ask(book) ==
    IF DOMAIN book.asks = {} THEN NoneOrder
    ELSE LET level == book.asks[Min(DOMAIN book.asks)]
         IN IF level # << >> THEN level[1] ELSE NoneOrder

\* the runs that count volumes in units of 0.5e-9 instead of whole units
FineEngines == {"multi_fine", "single_fine"}
\* 1e-9 in units of 0.5e-9
FineTolerance == 2
\* 1e-9 in the volume unit of the run: below every positive volume of a run in
\* whole units
Tolerance == IF engine \in FineEngines THEN FineTolerance ELSE 0

\* volume > 1e-9
above_tolerance(volume) == volume > Tolerance

\* the crossing condition of match_against_book
MO_crosses(aggr_order, best_opp) ==
    IF aggr_order.side = BUY THEN ~(aggr_order.price < best_opp.price)
    ELSE ~(aggr_order.price > best_opp.price)

\* Pay-as-Bid: trade_price = best_opp.price
MO_trade_price(aggr_order, best_opp) == best_opp.price

\* the Trade built by match_against_book
MO_Trade(mo, aggr_order, best_opp, time) ==
    [id |-> mo.next_trade_id,
     buy_order_id |-> IF aggr_order.side = BUY THEN aggr_order.id ELSE best_opp.id,
     sell_order_id |-> IF aggr_order.side = BUY THEN best_opp.id ELSE aggr_order.id,
     product_id |-> aggr_order.product_id,
     price |-> MO_trade_price(aggr_order, best_opp),
     volume |-> min(aggr_order.volume, best_opp.volume),
     time |-> time]

\* one pass of the loop body of match_against_book from the trade on: the trade,
\* the volume updates, the removal of a filled resting order (whose KeyError ends
\* the call) and the status updates
MO_fill(mo, aggr_order, best_opp, trades_this_order, time) ==
    LET trade == MO_Trade(mo, aggr_order, best_opp, time)
        aggr2 == [aggr_order EXCEPT !.volume = @ - trade.volume]
        opp2 == [best_opp EXCEPT
                   !.volume = @ - trade.volume,
                   !.status = IF ~above_tolerance(best_opp.volume - trade.volume)
                              THEN "FILLED" ELSE "PARTIALLY_FILLED"]
        book2 == IF best_opp.side = BUY
                 THEN [mo.order_book EXCEPT !.bids[best_opp.price][1] = opp2]
                 ELSE [mo.order_book EXCEPT !.asks[best_opp.price][1] = opp2]
        removed == IF ~above_tolerance(opp2.volume)
                   THEN OrderBook_remove_order(book2, opp2)
                   ELSE [book |-> book2, raised |-> ""]
    IN [mo |-> [mo EXCEPT !.next_trade_id = @ + 1,
                          !.trades = Append(@, trade),
                          !.order_book = removed.book],
        order |-> IF removed.raised # "" THEN aggr2
                  ELSE [aggr2 EXCEPT !.status = IF ~above_tolerance(aggr2.volume)
                                                THEN "FILLED" ELSE "PARTIALLY_FILLED"],
        trades |-> Append(trades_this_order, trade),
        raised |-> removed.raised]

\* MarketOperator.process_order.match_against_book; the loop as a recursion over
\* (operator, aggressive order, trades_this_order): the loop ends when the order is
\* filled, no opposite order is left or crosses, or remove_order raised
RECURSIVE match_against_book(_, _, _, _)
match_more(filled, time) ==
    IF filled.raised # "" \/ ~above_tolerance(filled.order.volume) THEN filled
    ELSE match_against_book(filled.mo, filled.order, filled.trades, time)

match_against_book(mo, aggr_order, trades_this_order, time) ==
    LET best_opp == IF aggr_order.side = BUY THEN OrderBook_best_ask(mo.order_book)
                    ELSE OrderBook_best_bid(mo.order_book)
    IN IF \/ ~above_tolerance(aggr_order.volume)
          \/ best_opp = NoneOrder
          \/ ~MO_crosses(aggr_order, best_opp)
       THEN [mo |-> mo, order |-> aggr_order, trades |-> trades_this_order,
             raised |-> ""]
       ELSE match_more(MO_fill(mo, aggr_order, best_opp, trades_this_order, time), time)

\* "Restvolumen behandeln": GTC remainders are placed in the book
MO_rests(incoming) == above_tolerance(incoming.volume) /\ incoming.tif = GTC

\* MarketOperator.process_order: the operator, the caller's order object after
\* the call and trades_this_order
MO_process_order(mo, incoming, time) ==
    LET m == match_against_book(mo, incoming, << >>, time)
        placed == [m.order EXCEPT !.status = "ACTIVE"]
        dropped == [m.order EXCEPT !.status = "CANCELLED"]
    IN IF m.raised # "" THEN m
       ELSE IF MO_rests(m.order)
       THEN [mo |-> [m.mo EXCEPT !.order_book = OrderBook_add_order(@, placed)],
             order |-> placed, trades |-> m.trades, raised |-> ""]
       ELSE IF above_tolerance(m.order.volume)
       THEN [mo |-> m.mo, order |-> dropped, trades |-> m.trades, raised |-> ""]
       ELSE m

\* MarketOperator(order_book=OrderBook(product_id=0))
MarketOperator(book) == [order_book |-> book, trades |-> << >>, next_trade_id |-> 0]

(***************************************************************************)
(* The calls a run makes                                                   *)
(***************************************************************************)
\* the orders submitters hand to process_order: agent 1 every combination
\* for product 0, the other agent unit good-till-cancelled orders for
\* product 0, and agent 1 unit orders for product 1 and for a product that
\* is not in the catalog
OrderInputs ==
    [id : SubmittedIds, agent_id : {1}, side : {BUY, SELL}, price : Prices,
     volume : Volumes, product_id : {0}, time_in_force : {GTC, IOC},
     timestamp : {-1}]
    \cup
    [id : SubmittedIds, agent_id : AgentIds \ {1}, side : {BUY, SELL}, price : Prices,
     volume : {1}, product_id : {0}, time_in_force : {GTC},
     timestamp : {-1}]
    \cup
    [id : SubmittedIds, agent_id : {1}, side : {BUY, SELL}, price : {1},
     volume : {1}, product_id : (OrderProductIds \ {0}), time_in_force : {GTC},
     timestamp : {-1}]

\* unit orders of agent 1 at price 1
UnitOrderInputs ==
    {o \in OrderInputs : o.agent_id = 1 /\ o.price = 1 /\ o.volume = 1
                         /\ o.time_in_force = GTC}

\* the process_order calls made: every order at tick 0, where the window of
\* product 0 opens, and the unit orders at every tick
ProcessOrderCalls ==
    {c \in OrderInputs \X Ticks : c[2] = 0 \/ c[1] \in UnitOrderInputs}

\* the values of process_order's validate_time argument that callers pass
ValidateTimes == {TRUE}

\* what a rejected call leaves visible of the caller's order object
Rejected(order) ==
    [None EXCEPT !.id = order.id, !.timestamp = order.timestamp,
                 !.product_id = order.product_id]

Call(op, order, volume_in, t, raised, trades, ids, count) ==
    [op |-> op, order |-> order, volume_in |-> volume_in, t |-> t, raised |-> raised,
     trades |-> trades, ids |-> ids, count |-> count]

SetOperator(mo) ==
    /\ products' = mo.products
    /\ order_books' = mo.order_books
    /\ next_order_id' = mo.next_order_id

\* the single-product operator object
mo_self == [order_book |-> order_book, trades |-> mo_trades,
            next_trade_id |-> next_trade_id]

\* the orders a submitter may hand to MarketOperator.process_order
MO_OrderInputs ==
    [id : SubmittedIds, agent_id : {1}, side : {BUY, SELL}, product_id : {0},
     volume : Volumes, price : Prices, time : {0}, tif : {GTC, IOC},
     status : {"ACTIVE"}]

Init ==
    /\ engine \in {"multi", "single"}
    /\ products = from_products(Catalog).products
    /\ order_books = from_products(Catalog).order_books
    /\ next_order_id = from_products(Catalog).next_order_id
    /\ order_book = MarketOperator(OrderBook(0)).order_book
    /\ mo_trades = MarketOperator(OrderBook(0)).trades
    /\ next_trade_id = MarketOperator(OrderBook(0)).next_trade_id
    /\ last = Call("init", None, 0, 0, "", << >>, << >>, 0)
    /\ sim = Idle
    /\ settlement = Idle

UpdateProductStatus ==
    \E t \in Ticks :
        /\ engine = "multi"
        /\ LET r == update_product_status(self, t)
           IN /\ SetOperator(r.mo)
              /\ last' = Call("update_product_status", None, 0, t, "", << >>,
                              r.closed_products,
                              r.cancelled_count[0] + r.cancelled_count[1])
        /\ UNCHANGED <<engine, single_vars, driver_vars>>

OpenProducts ==
    \E t \in Ticks :
        /\ engine = "multi"
        /\ LET r == open_products(self, t)
           IN /\ SetOperator(r.mo)
              /\ last' = Call("open_products", None, 0, t, "", << >>, r.opened, 0)
        /\ UNCHANGED <<engine, single_vars, driver_vars>>

ProcessOrder ==
    \E c \in ProcessOrderCalls, validate_time \in ValidateTimes :
        /\ engine = "multi"
        /\ next_order_id <= MaxOrders
        /\ LET order == c[1]
               t == c[2]
               r == process_order(self, order, t, validate_time)
           IN /\ SetOperator(r.mo)
              /\ last' = Call("process_order",
                              IF r.raised = "" THEN r.order ELSE Rejected(r.order),
                              IF r.raised = "" THEN order.volume ELSE 0,
                              t, r.raised, r.trades, << >>, 0)
        /\ UNCHANGED <<engine, single_vars, driver_vars>>

CancelAgentOrders ==
    \E agent_id \in AgentIds, product_id \in OrderProductIds \cup {NoProductId} :
        /\ engine = "multi"
        /\ LET r == cancel_agent_orders(self, agent_id, product_id)
           IN /\ SetOperator(r.mo)
              /\ last' = Call("cancel_agent_orders",
                              [None EXCEPT !.agent_id = agent_id, !.product_id = product_id],
                              0, 0, "", << >>, << >>, r.total_cancelled)
        /\ UNCHANGED <<engine, single_vars, driver_vars>>

\* a call of MarketOperator.process_order
MOProcessOrder ==
    \E incoming \in MO_OrderInputs, time \in {0, 1} :
        /\ engine = "single"
        /\ BookLen(order_book) + next_trade_id < MaxOrders
        /\ LET r == MO_process_order(mo_self, incoming, time)
           IN /\ order_book' = r.mo.order_book
              /\ mo_trades' = r.mo.trades
              /\ next_trade_id' = r.mo.next_trade_id
              /\ last' = Call("process_order", r.order, incoming.volume, time,
                              r.raised, r.trades, << >>, 0)
        /\ UNCHANGED <<engine, multi_vars, driver_vars>>

Next ==
    \/ UpdateProductStatus
    \/ OpenProducts
    \/ ProcessOrder
    \/ CancelAgentOrders
    \/ MOProcessOrder

Spec == Init /\ [][Next]_vars

(***************************************************************************)
(* A longer run on one price level of product 0: good-till-cancelled       *)
(* orders of both agents at price 1, one order more than MaxOrders,        *)
(* interleaved with cancel_agent_orders                                    *)
(***************************************************************************)
LevelOrderInputs ==
    [id : SubmittedIds, agent_id : AgentIds, side : {BUY, SELL}, price : {1},
     volume : Volumes, product_id : {0}, time_in_force : {GTC}, timestamp : {-1}]

InitLevel == Init

LevelOpenProducts ==
    \E t \in {0} :
        /\ engine = "multi"
        /\ LET r == open_products(self, t)
           IN /\ SetOperator(r.mo)
              /\ last' = Call("open_products", None, 0, t, "", << >>, r.opened, 0)
        /\ UNCHANGED <<engine, single_vars, driver_vars>>

LevelProcessOrder ==
    \E order \in LevelOrderInputs, t \in {0} :
        /\ engine = "multi"
        /\ next_order_id <= MaxOrders + 1
        /\ LET r == process_order(self, order, t, TRUE)
           IN /\ SetOperator(r.mo)
              /\ last' = Call("process_order",
                              IF r.raised = "" THEN r.order ELSE Rejected(r.order),
                              IF r.raised = "" THEN order.volume ELSE 0,
                              t, r.raised, r.trades, << >>, 0)
        /\ UNCHANGED <<engine, single_vars, driver_vars>>

LevelCancelAgentOrders ==
    \E agent_id \in AgentIds, product_id \in {0, NoProductId} :
        /\ engine = "multi"
        /\ LET r == cancel_agent_orders(self, agent_id, product_id)
           IN /\ SetOperator(r.mo)
              /\ last' = Call("cancel_agent_orders",
                              [None EXCEPT !.agent_id = agent_id, !.product_id = product_id],
                              0, 0, "", << >>, << >>, r.total_cancelled)
        /\ UNCHANGED <<engine, single_vars, driver_vars>>

\* MarketOperator.process_order with orders of one price
LevelMOProcessOrder ==
    \E incoming \in {o \in MO_OrderInputs : o.price = 1 /\ o.tif = GTC}, time \in {0} :
        /\ engine = "single"
        /\ BookLen(order_book) + next_trade_id < MaxOrders + 1
        /\ LET r == MO_process_order(mo_self, incoming, time)
           IN /\ order_book' = r.mo.order_book
              /\ mo_trades' = r.mo.trades
              /\ next_trade_id' = r.mo.next_trade_id
              /\ last' = Call("process_order", r.order, incoming.volume, time,
                              r.raised, r.trades, << >>, 0)
        /\ UNCHANGED <<engine, multi_vars, driver_vars>>

NextLevel ==
    \/ LevelOpenProducts
    \/ LevelProcessOrder
    \/ LevelCancelAgentOrders
    \/ LevelMOProcessOrder

SpecLevel == InitLevel /\ [][NextLevel]_vars

(***************************************************************************)
(* Vocabulary of the properties                                            *)
(***************************************************************************)
\* the orders resting on one side of a book
SideOrders(side) == UNION {{side[p][i] : i \in 1..Len(side[p])} : p \in DOMAIN side}

RECURSIVE SumSeq(_)
SumSeq(q) == IF q = << >> THEN 0 ELSE Head(q) + SumSeq(Tail(q))

\* total remaining volume resting on one side, at the prices ps and overall
LevelVolume(level) == SumSeq([i \in 1..Len(level) |-> level[i].volume])
SideVolumeAt(side, ps) ==
    LET RECURSIVE V(_)
        V(S) == IF S = {} THEN 0
                ELSE LET p == CHOOSE p \in S : TRUE
                     IN LevelVolume(side[p]) + V(S \ {p})
    IN V(ps \cap DOMAIN side)
SideVolume(side) == SideVolumeAt(side, DOMAIN side)

\* the side an incoming order is matched against
Opposite(book, incoming) == IF incoming.side = BUY THEN book.asks ELSE book.bids
\* the id of the resting order of a trade
RestingId(trade, incoming) ==
    IF incoming.side = BUY THEN trade.sell_order_id ELSE trade.buy_order_id
\* the id of the resting order of a trade of the last call
RestingIdOf(trade) == RestingId(trade, last.order)
\* price a is strictly better than price b for an order resting opposite to incoming
Better(a, b, incoming) == IF incoming.side = BUY THEN a < b ELSE a > b

\* the step is a process_order call that was accepted
Accepted == last'.op = "process_order" /\ last'.raised = ""
\* the book such a call was routed to, before and after the call
BookBefore == IF engine = "multi" THEN order_books[last'.order.product_id] ELSE order_book
BookAfter == IF engine = "multi" THEN order_books'[last'.order.product_id] ELSE order_book'
\* the trades the call returned
Returned == last'.trades

(***************************************************************************)
(* C1  Pay-as-bid: every trade a process_order call returns, in either      *)
(* operator, carries the limit price of the order that rested in the book  *)
(* when the call started (the first trade: the price of the best opposite  *)
(* order), whatever price the incoming order names.                        *)
(***************************************************************************)
C1_Step ==
    Accepted =>
        LET incoming == last'.order
            opp == SideOrders(Opposite(BookBefore, incoming))
            best == IF engine = "multi"
                    THEN (IF incoming.side = BUY THEN best_ask(BookBefore)
                          ELSE best_bid(BookBefore))
                    ELSE (IF incoming.side = BUY THEN OrderBook_best_ask(BookBefore)
                          ELSE OrderBook_best_bid(BookBefore))
        IN \A k \in 1..Len(Returned) :
              /\ \E o \in opp : /\ o.id = RestingId(Returned[k], incoming)
                                /\ o.price = Returned[k].price
              /\ k = 1 => Returned[k].price = best.price

C1_PayAsBid == [][C1_Step]_vars

\* a trade was made at a price different from the incoming order's price
C1_Witness ==
    /\ last.op = "process_order"
    /\ Len(last.trades) > 0
    /\ last.trades[1].price # last.order.price

(***************************************************************************)
(* C2  Price priority: within one process_order call a resting order is    *)
(* traded against only after every opposite order that rested at a         *)
(* strictly better price when the call started has been filled completely  *)
(* by the earlier trades of the call and is gone from the book; so the     *)
(* resting prices of the call's trades never improve.                      *)
(***************************************************************************)
\* total volume of the trades before the k-th that satisfy Sel
VolumeBefore(trades, k, Sel(_)) ==
    SumSeq([j \in 1..(k - 1) |-> IF Sel(trades[j]) THEN trades[j].volume ELSE 0])

C2_Step ==
    Accepted =>
        LET incoming == last'.order
            before == Opposite(BookBefore, incoming)
            after == Opposite(BookAfter, incoming)
        IN \A k \in 1..Len(Returned) :
              LET price == Returned[k].price
                  better == {p \in DOMAIN before : Better(p, price, incoming)}
                  AtBetter(tr) == Better(tr.price, price, incoming)
              IN /\ k > 1 => ~Better(price, Returned[k - 1].price, incoming)
                 /\ SideVolumeAt(before, better) = VolumeBefore(Returned, k, AtBetter)
                 /\ \A p \in DOMAIN after : ~Better(p, price, incoming)
                 /\ engine = "multi" =>
                      \A o \in SideOrders(before) :
                         Better(o.price, price, incoming) =>
                            LET Against(tr) == RestingId(tr, incoming) = o.id
                            IN /\ VolumeBefore(Returned, k, Against) = o.volume
                               /\ \A r \in SideOrders(after) : r.id # o.id

C2_PricePriority == [][C2_Step]_vars

\* one call swept a better-priced resting order and then traded against a
\* worse-priced one
C2_Witness ==
    /\ last.op = "process_order"
    /\ Len(last.trades) >= 2
    /\ last.trades[1].price # last.trades[2].price

\* a top-of-book that reports the whole volume of the best price level
get_tob_level(mo, product_id) ==
    LET ob == mo.order_books[product_id]
        vol(side, best) == IF best = None THEN 0
                           ELSE SumSeq([i \in 1..Len(side[best.price]) |->
                                          side[best.price][i].volume])
    IN [best_bid_price |-> best_bid(ob).price,
        best_bid_volume |-> vol(ob.bids, best_bid(ob)),
        best_ask_price |-> best_ask(ob).price,
        best_ask_volume |-> vol(ob.asks, best_ask(ob)),
        has_bid |-> best_bid(ob) # None, has_ask |-> best_ask(ob) # None]

(***************************************************************************)
(* C4  Uncrossed book: in every state of the multi-product operator, i.e.  *)
(* after every process_order, cancel_agent_orders, update_product_status   *)
(* and open_products call, each product's book has one side empty or every *)
(* bid strictly below every ask; TopOfBook.is_crossed is false.            *)
(***************************************************************************)
\* MultiProductMarketOperator.get_tob
get_tob(mo, product_id) ==
    LET ob == mo.order_books[product_id]
    IN [best_bid_price |-> best_bid(ob).price, best_bid_volume |-> best_bid(ob).volume,
        best_ask_price |-> best_ask(ob).price, best_ask_volume |-> best_ask(ob).volume,
        has_bid |-> best_bid(ob) # None, has_ask |-> best_ask(ob) # None]

\* product_ids=None
NoProductIds == <<NoProductId>>

\* PublicInfo(tob, da_price, product)
PublicInfo(tob, da_price, product) ==
    [tob |-> tob, da_price |-> da_price, product |-> product]

\* MultiProductMarketOperator.get_public_info: the dict product_id -> PublicInfo
get_public_info(mo, t, product_ids) ==
    LET ids == IF product_ids = NoProductIds THEN get_open_products(mo, t)
               ELSE product_ids
        keys == {ids[i] : i \in 1..Len(ids)} \cap DOMAIN mo.products
    IN [product_id \in keys |->
          PublicInfo(get_tob(mo, product_id), mo.products[product_id].da_price,
                     mo.products[product_id])]

\* TopOfBook.is_crossed
is_crossed(tob) ==
    IF tob.has_bid /\ tob.has_ask THEN tob.best_bid_price >= tob.best_ask_price
    ELSE FALSE

C4_Uncrossed ==
    engine = "multi" =>
        \A p \in ProductIds :
            /\ ~is_crossed(get_tob(self, p))
            /\ \A b \in SideOrders(order_books[p].bids), a \in SideOrders(order_books[p].asks) :
                  b.price < a.price

\* a process_order call left its order resting opposite to a resting order
C4_Witness ==
    /\ engine = "multi"
    /\ last.op = "process_order"
    /\ last.raised = ""
    /\ last.order.volume > 0
    /\ \E p \in ProductIds :
          /\ last.order \in SideOrders(order_books[p].bids) \cup SideOrders(order_books[p].asks)
          /\ order_books[p].bids # EmptyDict
          /\ order_books[p].asks # EmptyDict

(***************************************************************************)
(* C5  Volume conservation: for one accepted process_order call, in either *)
(* operator, the volumes of the returned trades sum to at most the         *)
(* incoming order's volume before the call, to exactly the decrease of the *)
(* volume resting on the opposite side, and to exactly the decrease of the *)
(* incoming order's own volume; and each trade is no larger than what the  *)
(* incoming order and the resting order had left when it was made.         *)
(***************************************************************************)
C5_Step ==
    Accepted =>
        LET incoming == last'.order
            before == Opposite(BookBefore, incoming)
            after == Opposite(BookAfter, incoming)
            Every(tr) == TRUE
            total == VolumeBefore(Returned, Len(Returned) + 1, Every)
        IN /\ total <= last'.volume_in
           /\ total = SideVolume(before) - SideVolume(after)
           /\ total = last'.volume_in - incoming.volume
           /\ \A k \in 1..Len(Returned) :
                 /\ Returned[k].volume > 0
                 /\ Returned[k].volume <= last'.volume_in - VolumeBefore(Returned, k, Every)
                 /\ engine = "multi" =>
                      \E o \in SideOrders(before) :
                         LET Against(tr) == RestingId(tr, incoming) = o.id
                         IN /\ o.id = RestingId(Returned[k], incoming)
                            /\ Returned[k].volume <= o.volume - VolumeBefore(Returned, k, Against)

C5_Conservation == [][C5_Step]_vars

\* a call that filled one resting order completely and a second one partly
C5_Witness ==
    /\ last.op = "process_order"
    /\ Len(last.trades) = 2
    /\ last.order.volume = 0
    /\ last.trades[1].volume + last.trades[2].volume = last.volume_in

(***************************************************************************)
(* C6  Lifecycle monotonicity: whatever t the calls are given, a product's *)
(* status changes only by Pending->Open, Open->Closed or Closed->Settled.  *)
(***************************************************************************)
C6_Step ==
    \A p \in ProductIds :
        products'[p].status # products[p].status =>
            <<products[p].status, products'[p].status>> \in
                {<<PENDING, OPEN>>, <<OPEN, CLOSED>>, <<CLOSED, SETTLED>>}

C6_LifecycleMonotonic == [][C6_Step]_vars

\* a product went through the whole lifecycle while the other is closed, not settled
C6_Witness ==
    /\ products[0].status = SETTLED
    /\ products[1].status = CLOSED

(***************************************************************************)
(* C7  Gate-close purge: a product whose status is Closed or Settled has   *)
(* an empty book, right after the call that closes it and ever after.      *)
(***************************************************************************)
C7_GateClosePurge ==
    engine = "multi" =>
        \A p \in ProductIds :
            products[p].status \in {CLOSED, SETTLED} => BookLen(order_books[p]) = 0

\* update_product_status just closed a product and cancelled resting orders
C7_Witness ==
    /\ last.op = "update_product_status"
    /\ last.ids # << >>
    /\ last.count >= 2
    /\ \A i \in 1..Len(last.ids) :
          /\ products[last.ids[i]].status = CLOSED
          /\ BookLen(order_books[last.ids[i]]) = 0

(***************************************************************************)
(* C3  FIFO within a price level.  In both operators an accepted           *)
(* process_order call leaves of every opposite price level a tail of what  *)
(* it was (orders leave from the front only), with nothing but the head's  *)
(* remaining volume reduced, so a partly filled order stays at the head.   *)
(* In the multi-product operator, where ids follow arrival: every price    *)
(* level lists its orders in arrival order after every call,               *)
(* cancel_agent_orders included, and a trade is made against an order only *)
(* when every order that arrived earlier at the same price and side has    *)
(* been filled completely by the call's earlier trades.                    *)
(***************************************************************************)
\* the levels of one side list their orders by increasing id
ArrivalOrdered(side) ==
    \A p \in DOMAIN side :
        \A i, j \in 1..Len(side[p]) : i < j => side[p][i].id < side[p][j].id

\* an order without the fields a fill changes
Unfilled(o) ==
    IF engine = "multi" THEN [o EXCEPT !.volume = 0]
    ELSE [o EXCEPT !.volume = 0, !.status = ""]

\* level_after is level_before without some of its first orders, and only its
\* head may have lost volume
TailOf(level_before, level_after) ==
    LET n == Len(level_before) - Len(level_after)
    IN /\ n >= 0
       /\ \A i \in 1..Len(level_after) :
             /\ Unfilled(level_after[i]) = Unfilled(level_before[n + i])
             /\ level_after[i].volume <= level_before[n + i].volume
             /\ i > 1 => level_after[i] = level_before[n + i]

C3_Step ==
    /\ \A p \in ProductIds :
          ArrivalOrdered(order_books'[p].bids) /\ ArrivalOrdered(order_books'[p].asks)
    /\ Accepted =>
          LET opp_before == Opposite(BookBefore, last'.order)
              opp_after == Opposite(BookAfter, last'.order)
          IN /\ DOMAIN opp_after \subseteq DOMAIN opp_before
             /\ \A p \in DOMAIN opp_before :
                   TailOf(opp_before[p], DictGet(opp_after, p, << >>))
    /\ (Accepted /\ engine = "multi") =>
          LET incoming == last'.order
              before == SideOrders(Opposite(BookBefore, incoming))
          IN \A k \in 1..Len(Returned) :
                \A r, o \in before :
                   (/\ r.id = RestingId(Returned[k], incoming)
                    /\ o.price = r.price
                    /\ o.id < r.id) =>
                       LET Against(tr) == RestingId(tr, incoming) = o.id
                       IN VolumeBefore(Returned, k, Against) = o.volume

C3_Fifo == [][C3_Step]_vars

\* the fourth order traded first against the oldest order of the level, for
\* less than a full order, and then against the third order, the second
\* having left the level in between
C3_Witness ==
    /\ engine = "multi"
    /\ last.op = "process_order"
    /\ Len(last.trades) = 2
    /\ last.trades[1].price = last.trades[2].price
    /\ RestingIdOf(last.trades[1]) = 1
    /\ last.trades[1].volume < MaxVolume
    /\ RestingIdOf(last.trades[2]) > RestingIdOf(last.trades[1]) + 1
    /\ next_order_id = MaxOrders + 2

(***************************************************************************)
(* C8  Trading-window gate: a MultiProductMarketOperator.process_order      *)
(* call (default time validation) for a product whose status is not Open,  *)
(* or with t outside [gate_open, gate_close), raises, returns no trade and *)
(* leaves products, books and the id counter as they were; and whenever a  *)
(* call returns a trade or an order starts resting in a product's book,    *)
(* the product was Open and the call's t inside its window.                *)
(***************************************************************************)
\* the product is Open and t lies in [gate_open, gate_close)
Tradable(product, t) ==
    /\ product.status = OPEN
    /\ product.gate_open <= t
    /\ t < product.gate_close

BookOrders(ob) == SideOrders(ob.bids) \cup SideOrders(ob.asks)

C8_Step ==
    engine = "multi" =>
       /\ (/\ last'.op = "process_order"
           /\ last'.order.product_id \in ProductIds
           /\ ~Tradable(products[last'.order.product_id], last'.t)) =>
              /\ last'.raised = "ValueError"
              /\ last'.trades = << >>
              /\ UNCHANGED multi_vars
       /\ (last'.op = "process_order" /\ last'.trades # << >>) =>
              /\ Tradable(products[last'.order.product_id], last'.t)
              /\ \A k \in 1..Len(last'.trades) :
                    /\ last'.trades[k].time = last'.t
                    /\ last'.trades[k].product_id = last'.order.product_id
       /\ \A pid \in ProductIds :
             \A o \in BookOrders(order_books'[pid]) :
                (\A o2 \in BookOrders(order_books[pid]) : o2.id # o.id) =>
                   /\ last'.op = "process_order"
                   /\ last'.order.product_id = pid
                   /\ o.timestamp = last'.t
                   /\ Tradable(products[pid], last'.t)

C8_TradingWindowGate == [][C8_Step]_vars

\* a call for product 0 was rejected after its window although the product was
\* still Open and held resting orders
C8_Witness ==
    /\ engine = "multi"
    /\ last.op = "process_order"
    /\ last.raised = "ValueError"
    /\ last.order.product_id = 0
    /\ products[0].status = OPEN
    /\ last.t >= products[0].gate_close
    /\ BookOrders(order_books[0]) # {}

(***************************************************************************)
(* C9  Order identity: an accepted MultiProductMarketOperator.process_order *)
(* call gives the order the operator's next id, whatever id was submitted, *)
(* and advances the counter by one; the counter never decreases; the new   *)
(* id is larger than every id resting in any book; in the call's trades    *)
(* the incoming side carries the new id and the resting side a smaller     *)
(* one; and the orders resting in all books have pairwise different ids.   *)
(***************************************************************************)
AllResting(books) == UNION {BookOrders(books[pid]) : pid \in DOMAIN books}

\* no id occurs at two places of the books
UniqueIds(books) ==
    /\ \A o1, o2 \in AllResting(books) : o1.id = o2.id => o1 = o2
    /\ \A pid \in DOMAIN books :
          /\ SideLen(books[pid].bids) + SideLen(books[pid].asks)
                = Cardinality(BookOrders(books[pid]))
          /\ \A q \in DOMAIN books : q # pid =>
                BookOrders(books[pid]) \cap BookOrders(books[q]) = {}

C9_Step ==
    engine = "multi" =>
       /\ next_order_id' >= next_order_id
       /\ UniqueIds(order_books')
       /\ \A o \in AllResting(order_books') : o.id < next_order_id'
       /\ Accepted =>
             /\ last'.order.id = next_order_id
             /\ next_order_id' = next_order_id + 1
             /\ \A o \in AllResting(order_books) : o.id < last'.order.id
             /\ \A k \in 1..Len(Returned) :
                   LET tr == Returned[k]
                       own == IF last'.order.side = BUY THEN tr.buy_order_id
                              ELSE tr.sell_order_id
                   IN /\ own = last'.order.id
                      /\ RestingId(tr, last'.order) < last'.order.id
                      /\ \E o \in AllResting(order_books) :
                            o.id = RestingId(tr, last'.order)
       /\ ~Accepted => next_order_id' = next_order_id

C9_OrderIdentity == [][C9_Step]_vars

\* the third accepted order, submitted with id 1 like the others, rests in
\* product 1 under id 3 while an older order rests in product 0
C9_Witness ==
    /\ engine = "multi"
    /\ last.op = "process_order"
    /\ last.raised = ""
    /\ last.order.id = 3
    /\ last.order.id \notin SubmittedIds
    /\ last.order \in BookOrders(order_books[1])
    /\ \E o \in BookOrders(order_books[0]) : o.id < 3

(***************************************************************************)
(* C10  Remainder handling: after a successful process_order call of       *)
(* either operator the incoming order has been appended to its price level *)
(* on its own side if its remaining volume is > 0 and it is                *)
(* good-till-cancelled, and otherwise its own side of the book is as it    *)
(* was (an immediate-or-cancel remainder and a filled order do not rest).  *)
(***************************************************************************)
OwnSide(book, o) == IF o.side = BUY THEN book.bids ELSE book.asks
TimeInForce(o) == IF engine = "multi" THEN o.time_in_force ELSE o.tif

C10_Step ==
    Accepted =>
       LET o == last'.order
           before == OwnSide(BookBefore, o)
           after == OwnSide(BookAfter, o)
       IN IF o.volume > 0 /\ TimeInForce(o) = GTC
          THEN /\ o.price \in DOMAIN after
               /\ after[o.price] = Append(DictGet(before, o.price, << >>), o)
               /\ \A p \in DOMAIN before : p # o.price => after[p] = before[p]
               /\ DOMAIN after = DOMAIN before \cup {o.price}
          ELSE /\ after = before
               /\ engine = "multi" =>
                     \A x \in AllResting(order_books') : x.id # o.id

C10_RemainderHandling == [][C10_Step]_vars

\* an immediate-or-cancel order was filled in part and its remainder is not
\* in the book
C10_Witness ==
    /\ engine = "multi"
    /\ last.op = "process_order"
    /\ last.raised = ""
    /\ last.order.time_in_force = IOC
    /\ last.order.volume > 0
    /\ last.trades # << >>
    /\ \A x \in AllResting(order_books) : x.id # last.order.id

(***************************************************************************)
(* C11  cancel_agent_orders(agent_id, product_id?): in the given product's *)
(* book, or in every book when product_id is omitted, exactly the orders   *)
(* of that agent leave; the returned number is the number of orders the    *)
(* agent had resting there; books that are not targeted, the products and  *)
(* the id counter stay as they were.                                       *)
(***************************************************************************)
\* the orders of one agent resting in a book
OrdersOf(ob, agent_id) == {o \in BookOrders(ob) : o.agent_id = agent_id}

\* the products a cancel_agent_orders call with this product_id targets
Targeted(product_id) ==
    IF product_id = NoProductId THEN ProductIds ELSE {product_id} \cap ProductIds

RECURSIVE SumOver(_, _)
SumOver(S, f) ==
    IF S = {} THEN 0
    ELSE LET x == CHOOSE x \in S : TRUE IN f[x] + SumOver(S \ {x}, f)

C11_Step ==
    (engine = "multi" /\ last'.op = "cancel_agent_orders") =>
       LET agent_id == last'.order.agent_id
           targeted == Targeted(last'.order.product_id)
           had == [p \in targeted |-> Cardinality(OrdersOf(order_books[p], agent_id))]
       IN /\ \A p \in targeted :
                /\ OrdersOf(order_books'[p], agent_id) = {}
                /\ BookOrders(order_books'[p])
                      = BookOrders(order_books[p]) \ OrdersOf(order_books[p], agent_id)
                /\ BookLen(order_books'[p]) = BookLen(order_books[p]) - had[p]
          /\ last'.count = SumOver(targeted, had)
          /\ \A p \in ProductIds \ targeted : order_books'[p] = order_books[p]
          /\ UNCHANGED <<products, next_order_id>>

C11_CancelAgentOrders == [][C11_Step]_vars

\* a call without product_id removed two orders of the agent and left the
\* third order, of the other agent, resting
C11_Witness ==
    /\ engine = "multi"
    /\ last.op = "cancel_agent_orders"
    /\ last.order.product_id = NoProductId
    /\ last.count = 2
    /\ next_order_id = 4
    /\ BookLen(order_books[0]) + BookLen(order_books[1]) = 1

(***************************************************************************)
(* Settlement (sim/settlement.py)                                          *)
(* Prices, offsets, positions and revenues are integers; an agent is       *)
(* [id, is_multi_product, private_info]; the private info of a             *)
(* multi-product agent holds the dicts da_positions, positions, revenues,  *)
(* that of a single-product agent the scalars da_position,                 *)
(* market_position, revenue.                                               *)
(***************************************************************************)
\* settlement offsets are 0..MaxOffset
MaxOffset == 2
\* settlement volatilities are 0..MaxVolatility
MaxVolatility == 2
\* day-ahead and market positions are -MaxPosition..MaxPosition
MaxPosition == 2

abs(x) == IF x < 0 THEN -x ELSE x
max(a, b) == IF a >= b THEN a ELSE b

\* rng=None
NoRng == << >>
\* the values rng.uniform(-volatility, volatility) may return
uniform(volatility) == (-volatility)..volatility

\* get_imbalance_prices; rng is the pair of numbers the two rng.uniform calls return
get_imbalance_prices(product, base_offset, volatility, use_stochastic, rng) ==
    LET da_price == product.da_price
        offset_up == IF use_stochastic /\ rng # NoRng THEN base_offset + rng[1]
                     ELSE base_offset
        offset_down == IF use_stochastic /\ rng # NoRng THEN base_offset + rng[2]
                       ELSE base_offset
    IN [lambda_up |-> da_price + offset_up,
        lambda_down |-> max(0, da_price - offset_down)]

\* an imbalance cost that charges the upward price on either side
calculate_imbalance_cost_up(imbalance, lambda_up, lambda_down) ==
    IF imbalance > 0 THEN imbalance * lambda_up
    ELSE IF imbalance < 0 THEN abs(imbalance) * lambda_up
    ELSE 0

\* calculate_imbalance_cost
calculate_imbalance_cost(imbalance, lambda_up, lambda_down) ==
    IF imbalance > 0 THEN imbalance * lambda_up
    ELSE IF imbalance < 0 THEN abs(imbalance) * lambda_down
    ELSE 0

\* an update that keeps the revenue of the updated product only
update_revenue_only(pi, product_id, revenue_delta) ==
    [pi EXCEPT !.revenues =
        DictSet(EmptyDict, product_id, DictGet(pi.revenues, product_id, 0) + revenue_delta)]

\* MultiProductPrivateInfo.update_revenue: a missing product starts at 0
update_revenue(pi, product_id, revenue_delta) ==
    [pi EXCEPT !.revenues =
        DictSet(pi.revenues, product_id, DictGet(pi.revenues, product_id, 0) + revenue_delta)]

\* MultiProductPrivateInfo.update_position: a missing product starts at 0
update_position(pi, product_id, volume_delta) ==
    [pi EXCEPT !.positions =
        DictSet(pi.positions, product_id, DictGet(pi.positions, product_id, 0) + volume_delta)]

\* settle_agent_product: the agent afterwards and the SettlementResult
settle_agent_product(agent, product, lambda_up, lambda_down, apply_to_revenue) ==
    LET product_id == product.product_id
        pi == agent.private_info
        da_position == IF agent.is_multi_product
                       THEN DictGet(pi.da_positions, product_id, 0)
                       ELSE pi.da_position
        market_position == IF agent.is_multi_product
                           THEN DictGet(pi.positions, product_id, 0)
                           ELSE pi.market_position
        revenue_before == IF agent.is_multi_product
                          THEN DictGet(pi.revenues, product_id, 0)
                          ELSE pi.revenue
        imbalance == da_position - market_position
        imbalance_cost == calculate_imbalance_cost(imbalance, lambda_up, lambda_down)
        applied == apply_to_revenue /\ imbalance_cost > 0
        pi_after == IF ~applied THEN pi
                    ELSE IF agent.is_multi_product
                         THEN update_revenue(pi, product_id, -imbalance_cost)
                         ELSE [pi EXCEPT !.revenue = pi.revenue - imbalance_cost]
        revenue_after == IF ~applied THEN revenue_before
                         ELSE IF agent.is_multi_product
                              THEN DictGet(pi_after.revenues, product_id, 0)
                              ELSE pi_after.revenue
    IN [agent |-> [agent EXCEPT !.private_info = pi_after],
        result |-> [agent_id |-> agent.id, product_id |-> product_id,
                    da_position |-> da_position, market_position |-> market_position,
                    imbalance |-> imbalance, imbalance_cost |-> imbalance_cost,
                    lambda_up |-> lambda_up, lambda_down |-> lambda_down,
                    revenue_before |-> revenue_before, revenue_after |-> revenue_after]]

\* the inner loop of settle_products over the agents, for one product:
\* single-product agents are skipped
RECURSIVE settle_agents(_, _, _, _, _)
settle_agents(agents, product, lambda_up, lambda_down, apply_to_revenue) ==
    IF agents = << >> THEN [agents |-> << >>, product_results |-> << >>]
    ELSE LET rest == settle_agents(Tail(agents), product, lambda_up, lambda_down,
                                   apply_to_revenue)
             r == settle_agent_product(Head(agents), product, lambda_up, lambda_down,
                                       apply_to_revenue)
         IN IF ~Head(agents).is_multi_product
            THEN [agents |-> <<Head(agents)>> \o rest.agents,
                  product_results |-> rest.product_results]
            ELSE [agents |-> <<r.agent>> \o rest.agents,
                  product_results |-> <<r.result>> \o rest.product_results]

\* settle_products: the agents afterwards and all_results; rng is the list of the
\* pairs rng.uniform returns, one pair for each product
RECURSIVE settle_products(_, _, _, _, _, _, _)
settle_products(products_to_settle, agents, base_offset, volatility, use_stochastic, rng, apply_to_revenue) ==
    IF products_to_settle = << >> THEN [agents |-> agents, all_results |-> EmptyDict]
    ELSE LET product == Head(products_to_settle)
             prices == get_imbalance_prices(product, base_offset, volatility,
                                            use_stochastic,
                                            IF rng = NoRng THEN NoRng ELSE Head(rng))
             one == settle_agents(agents, product, prices.lambda_up,
                                  prices.lambda_down, apply_to_revenue)
             rest == settle_products(Tail(products_to_settle), one.agents, base_offset,
                                     volatility, use_stochastic,
                                     IF rng = NoRng THEN NoRng ELSE Tail(rng),
                                     apply_to_revenue)
         IN [agents |-> rest.agents,
             all_results |->
                 [k \in {product.product_id} \cup DOMAIN rest.all_results |->
                    IF k \in DOMAIN rest.all_results THEN rest.all_results[k]
                    ELSE one.product_results]]

(***************************************************************************)
(* Settlement calls: a run draws a product, a settlement configuration and *)
(* three agents, and then calls settle_products or settle_agent_product    *)
(* once                                                                    *)
(***************************************************************************)
Positions == (-MaxPosition)..MaxPosition
Offsets == 0..MaxOffset
Volatilities == 0..MaxVolatility

MultiProductAgent(id, da_positions, positions, revenues) ==
    [id |-> id, is_multi_product |-> TRUE,
     private_info |-> [da_positions |-> da_positions, positions |-> positions,
                       revenues |-> revenues]]

SingleProductAgent(id, da_position, market_position, revenue) ==
    [id |-> id, is_multi_product |-> FALSE,
     private_info |-> [da_position |-> da_position,
                       market_position |-> market_position, revenue |-> revenue]]

\* the dicts a multi-product private info may hold for product 0: no entry, or a value
PositionDicts == {EmptyDict} \cup {DictSet(EmptyDict, 0, x) : x \in Positions}

\* the agent lists handed to settlement: a multi-product agent with any positions, a
\* multi-product agent that is short of its day-ahead position and has revenue in
\* two products, a single-product agent
SettlementAgents ==
    {<<MultiProductAgent(1, da, pos, EmptyDict),
       MultiProductAgent(2, DictSet(EmptyDict, 0, 1), DictSet(EmptyDict, 0, 2),
                         DictSet(DictSet(EmptyDict, 0, 1), 1, 2)),
       SingleProductAgent(3, 2, 1, 0)>> : da \in PositionDicts, pos \in PositionDicts}

InitSettle ==
    /\ engine = "settle"
    /\ products = from_products(Catalog).products
    /\ order_books = from_products(Catalog).order_books
    /\ next_order_id = from_products(Catalog).next_order_id
    /\ order_book = MarketOperator(OrderBook(0)).order_book
    /\ mo_trades = MarketOperator(OrderBook(0)).trades
    /\ next_trade_id = MarketOperator(OrderBook(0)).next_trade_id
    /\ last = Call("init", None, 0, 0, "", << >>, << >>, 0)
    /\ sim = Idle
    /\ settlement \in
          [pc : {"ready"},
           product : {[Catalog[0] EXCEPT !.da_price = p] : p \in Prices},
           agents : SettlementAgents,
           base_offset : Offsets, volatility : Volatilities,
           use_stochastic : BOOLEAN, apply_to_revenue : BOOLEAN,
           rng : {NoRng}, agents_after : {<< >>}, results : {<< >>}]

\* settle_products([product], agents, ...) as the driver calls it, with a rng; the
\* rng is drawn from only when use_stochastic is set
SettleProducts ==
    \E up \in uniform(settlement.volatility), down \in uniform(settlement.volatility) :
        /\ engine = "settle"
        /\ settlement.pc = "ready"
        /\ settlement.use_stochastic \/ (up = 0 /\ down = 0)
        /\ LET r == settle_products(<<settlement.product>>, settlement.agents,
                                    settlement.base_offset, settlement.volatility,
                                    settlement.use_stochastic, <<(<<up, down>>)>>,
                                    settlement.apply_to_revenue)
           IN settlement' = [settlement EXCEPT
                               !.pc = "settle_products",
                               !.rng = <<up, down>>,
                               !.agents_after = r.agents,
                               !.results = r.all_results[settlement.product.product_id]]
        /\ UNCHANGED <<engine, multi_vars, single_vars, last, sim>>

\* settle_agent_product(agent, product, lambda_up, lambda_down, apply_to_revenue)
\* called on its own, on any of the agents and with any pair of prices
SettleAgentProduct ==
    \E i \in 1..3, lambda_up \in 0..MaxPrice, lambda_down \in 0..MaxPrice :
        /\ engine = "settle"
        /\ settlement.pc = "ready"
        \* the offset configuration is no argument of this call
        /\ settlement.base_offset = 0 /\ settlement.volatility = 0
        /\ ~settlement.use_stochastic
        /\ LET r == settle_agent_product(settlement.agents[i], settlement.product,
                                         lambda_up, lambda_down,
                                         settlement.apply_to_revenue)
           IN settlement' = [settlement EXCEPT
                               !.pc = "settle_agent_product",
                               !.agents_after = [settlement.agents EXCEPT ![i] = r.agent],
                               !.results = <<r.result>>]
        /\ UNCHANGED <<engine, multi_vars, single_vars, last, sim>>

NextSettle ==
    \/ SettleProducts
    \/ SettleAgentProduct

SpecSettle == InitSettle /\ [][NextSettle]_vars

\* the agent a settlement result is about, as it was handed in
SettledAgent(result) ==
    CHOOSE a \in {settlement.agents[i] : i \in 1..Len(settlement.agents)} :
        a.id = result.agent_id

\* the day-ahead position an agent committed for a product, and the position it
\* realized on the market
Committed(agent, product_id) ==
    IF agent.is_multi_product
    THEN IF product_id \in DOMAIN agent.private_info.da_positions
         THEN agent.private_info.da_positions[product_id] ELSE 0
    ELSE agent.private_info.da_position
Realized(agent, product_id) ==
    IF agent.is_multi_product
    THEN IF product_id \in DOMAIN agent.private_info.positions
         THEN agent.private_info.positions[product_id] ELSE 0
    ELSE agent.private_info.market_position

SettlementResults == {settlement.results[i] : i \in 1..Len(settlement.results)}

\* C13: Settlement cost sign: whatever the product, the offset and volatility
\* configuration and the imbalance, the cost that get_imbalance_prices followed by
\* calculate_imbalance_cost computes is >= 0, and it is 0 exactly when the imbalance is 0
C13_CostSign ==
    settlement.pc = "settle_products" =>
        \A r \in SettlementResults :
            /\ r.imbalance_cost >= 0
            /\ r.imbalance_cost = 0 <=> r.imbalance = 0

\* C14: Settlement formula: settle_agent_product computes the imbalance as the
\* committed (day-ahead) position minus the realized market position for the product,
\* and the cost as imbalance x upward price when the imbalance is positive,
\* |imbalance| x downward price when it is negative, and 0 when it is 0
C14_SettlementFormula ==
    settlement.pc \in {"settle_products", "settle_agent_product"} =>
        \A r \in SettlementResults :
            LET agent == SettledAgent(r)
                product_id == settlement.product.product_id
            IN /\ r.product_id = product_id
               /\ r.imbalance = Committed(agent, product_id) - Realized(agent, product_id)
               /\ r.imbalance > 0 => r.imbalance_cost = r.imbalance * r.lambda_up
               /\ r.imbalance < 0 => r.imbalance_cost = (-r.imbalance) * r.lambda_down
               /\ r.imbalance = 0 => r.imbalance_cost = 0

\* settle_products settled one agent that holds less than it committed (imbalance 1,
\* charged the upward price 3) and one that holds more (imbalance -1, charged the
\* downward price 1)
C14_Witness ==
    /\ settlement.pc = "settle_products"
    /\ \E r \in SettlementResults :
          /\ r.da_position = 2 /\ r.market_position = 1
          /\ r.lambda_up = 3 /\ r.imbalance_cost = 3
    /\ \E r \in SettlementResults :
          /\ r.da_position = 1 /\ r.market_position = 2
          /\ r.lambda_down = 1 /\ r.lambda_up = 3 /\ r.imbalance_cost = 1

(***************************************************************************)
(* Market information: a run of the multi-product operator that advances   *)
(* the lifecycle, takes good-till-cancelled orders for both products and   *)
(* asks for the public info                                                *)
(***************************************************************************)
\* any order for product 0, unit orders of agent 1 at price 1 for product 1
InfoOrderInputs ==
    [id : SubmittedIds, agent_id : AgentIds, side : {BUY, SELL}, price : Prices,
     volume : Volumes, product_id : {0}, time_in_force : {GTC}, timestamp : {-1}]
    \cup
    [id : SubmittedIds, agent_id : {1}, side : {BUY, SELL}, price : {1},
     volume : {1}, product_id : ProductIds \ {0}, time_in_force : {GTC},
     timestamp : {-1}]

\* the product lists handed to get_public_info: None, and lists that name catalog
\* products, a product twice, and a product that is not in the catalog
ProductIdLists == {NoProductIds, << >>, <<1, 0>>, <<0, 9, 0>>}

\* the get_public_info calls made: without a list at every tick, with a list at
\* tick 0 (t is not read when a list is given)
GetPublicInfoCalls ==
    {c \in Ticks \X ProductIdLists : c[2] = NoProductIds \/ c[1] = 0}

\* a get_public_info call and the dict it returned
InfoCall(t, product_ids, info) ==
    [op |-> "get_public_info", t |-> t, product_ids |-> product_ids, info |-> info]

InitInfo == Init /\ engine = "multi"

InfoUpdateProductStatus ==
    \E t \in Ticks :
        /\ engine = "multi"
        /\ LET r == update_product_status(self, t)
           IN /\ SetOperator(r.mo)
              /\ last' = Call("update_product_status", None, 0, 0, "", << >>, << >>, 0)
        /\ UNCHANGED <<engine, single_vars, driver_vars>>

\* process_order at the tick at which the order's product opens
InfoProcessOrder ==
    \E order \in InfoOrderInputs :
        /\ engine = "multi"
        /\ next_order_id <= MaxOrders
        /\ LET t == products[order.product_id].gate_open
               r == process_order(self, order, t, TRUE)
           IN /\ SetOperator(r.mo)
              /\ last' = Call("process_order", None, 0, 0, r.raised, << >>, << >>, 0)
        /\ UNCHANGED <<engine, single_vars, driver_vars>>

GetPublicInfo ==
    \E c \in GetPublicInfoCalls :
        /\ engine = "multi"
        /\ last' = InfoCall(c[1], c[2], get_public_info(self, c[1], c[2]))
        /\ UNCHANGED <<engine, multi_vars, single_vars, driver_vars>>

NextInfo ==
    \/ InfoUpdateProductStatus
    \/ InfoProcessOrder
    \/ GetPublicInfo

SpecInfo == InitInfo /\ [][NextInfo]_vars

\* what an observer of the top of a book keeps of an order: its price and volume
Anonymous(order) == [None EXCEPT !.price = order.price, !.volume = order.volume]

\* the book that holds only the best bid and the best ask of ob, without their ids,
\* owners and timestamps
TopOnlyBook(ob) ==
    [product |-> ob.product,
     bids |-> IF SideOrders(ob.bids) = {} THEN EmptyDict
              ELSE LET price == Max({o.price : o \in SideOrders(ob.bids)})
                   IN DictSet(EmptyDict, price, <<Anonymous(ob.bids[price][1])>>),
     asks |-> IF SideOrders(ob.asks) = {} THEN EmptyDict
              ELSE LET price == Min({o.price : o \in SideOrders(ob.asks)})
                   IN DictSet(EmptyDict, price, <<Anonymous(ob.asks[price][1])>>)]

\* the operator with the same catalog whose books hold the tops of mo's books only
TopOnly(mo) ==
    [products |-> mo.products,
     order_books |-> [p \in DOMAIN mo.order_books |-> TopOnlyBook(mo.order_books[p])],
     next_order_id |-> 1]

TopOf(side, best) ==
    IF SideOrders(side) = {} THEN "none"
    ELSE LET price == IF best = "highest" THEN Max({o.price : o \in SideOrders(side)})
                      ELSE Min({o.price : o \in SideOrders(side)})
         IN <<price, side[price][1].volume>>

\* what a TopOfBook shows of a side
Shown(has, price, volume) == IF has THEN <<price, volume>> ELSE "none"

on_trade(agent, volume, price, side, product_id) ==
    IF agent.is_multi_product
    THEN IF side = SELL
         THEN [agent EXCEPT !.private_info =
                  update_revenue(update_position(@, product_id, volume),
                                 product_id, volume * price)]
         ELSE [agent EXCEPT !.private_info =
                  update_revenue(update_position(@, product_id, -volume),
                                 product_id, -(volume * price))]
    ELSE IF side = SELL
         THEN [agent EXCEPT !.private_info.market_position = @ + volume,
                            !.private_info.revenue = @ + volume * price]
         ELSE [agent EXCEPT !.private_info.market_position = @ - volume,
                            !.private_info.revenue = @ - volume * price]

\* agent_by_id.get(agent_id): the place of the agent in the list, 0 for None
agent_by_id(agents, agent_id) ==
    IF \E i \in 1..Len(agents) : agents[i].id = agent_id
    THEN Max({i \in 1..Len(agents) : agents[i].id = agent_id})
    ELSE 0

\* "Update BUYER" / "Update SELLER": on_trade of the agent with that id, if the
\* driver knows one
side_effect(agents, agent_id, trade, side) ==
    LET i == agent_by_id(agents, agent_id)
    IN IF i # 0
       THEN [agents |-> [agents EXCEPT ![i] = on_trade(@, trade.volume, trade.price,
                                                       side, trade.product_id)],
             calls |-> 1]
       ELSE [agents |-> agents, calls |-> 0]

\* a trade loop that updates the buyer only
RECURSIVE trade_effects_buyer(_, _)
trade_effects_buyer(agents, trades) ==
    IF trades = << >> THEN [agents |-> agents, calls |-> 0]
    ELSE LET buyer == side_effect(agents, Head(trades).buy_agent_id, Head(trades), BUY)
             rest == trade_effects_buyer(buyer.agents, Tail(trades))
         IN [agents |-> rest.agents, calls |-> buyer.calls + rest.calls]

\* "for trade in trades": the agents afterwards and the number of on_trade calls
RECURSIVE trade_effects(_, _)
trade_effects(agents, trades) ==
    IF trades = << >> THEN [agents |-> agents, calls |-> 0]
    ELSE LET buyer == side_effect(agents, Head(trades).buy_agent_id, Head(trades), BUY)
             seller == side_effect(buyer.agents, Head(trades).sell_agent_id,
                                   Head(trades), SELL)
             rest == trade_effects(seller.agents, Tail(trades))
         IN [agents |-> rest.agents,
             calls |-> buyer.calls + seller.calls + rest.calls]

\* n_steps of the runs
SimSteps == MaxT + 1
\* settlement_offset of the runs
SimOffset == 1

\* a catalog with a product that is handed in with the status Open and a gate that
\* has closed at tick 0: product 1 traded before the run starts
LateCatalog ==
    [p \in ProductIds |->
       IF p = 0 THEN Catalog[0]
       ELSE [Product(1, 0, 0, 2, 3) EXCEPT !.status = OPEN]]

\* the product lists handed to run_multi_product_simulation
SimCatalogs == {Catalog, LateCatalog}

\* the agents handed to run_multi_product_simulation: agent 1 is a multi-product
\* agent with a day-ahead position of 1 in each product, agent 2 a single-product one
SimAgents ==
    <<MultiProductAgent(1, [p \in ProductIds |-> 1], [p \in ProductIds |-> 0],
                        [p \in ProductIds |-> 0]),
      SingleProductAgent(2, 1, 0, 0)>>

\* the orders an agent may decide on: its own id, any side and price, and a
\* product_id that may be stale or unknown
SimOrders(agent_id) ==
    [id : SubmittedIds, agent_id : {agent_id}, side : {BUY, SELL}, price : Prices,
     volume : Volumes, product_id : OrderProductIds, time_in_force : {GTC},
     timestamp : {-1}]

\* unit orders at price 1
SimUnitOrders(agent_id) == {o \in SimOrders(agent_id) : o.price = 1 /\ o.volume = 1}

\* what decide_orders may return, as the list of its (key, order) items: no order,
\* one order under a key, or a list of two orders under a key
MultiDecisions(agent_id) ==
    {<< >>}
    \cup {<<[key |-> key, order |-> o]>> : key \in ProductIds, o \in SimOrders(agent_id)}
    \cup {<<[key |-> key, order |-> o1], [key |-> key, order |-> o2]>> :
             key \in ProductIds, o1 \in SimUnitOrders(agent_id),
             o2 \in SimUnitOrders(agent_id)}

\* what decide_order may return: None or one order
SingleDecisions(agent_id) == {None} \cup SimOrders(agent_id)

\* "if product_id not in open_product_ids: continue", "if order is None: continue":
\* the orders of a decide_orders result that the driver hands to process_order
RECURSIVE orders_to_process(_, _)
orders_to_process(items, open_product_ids) ==
    IF items = << >> THEN << >>
    ELSE IF \E i \in 1..Len(open_product_ids) : open_product_ids[i] = Head(items).key
         THEN <<Head(items).order>> \o orders_to_process(Tail(items), open_product_ids)
         ELSE orders_to_process(Tail(items), open_product_ids)

\* "Set product_id if not set"
set_product_id(order, fallback_product_id) ==
    IF order.product_id = NoProductId \/ order.product_id = 0
    THEN [order EXCEPT !.product_id = fallback_product_id]
    ELSE order

\* the public_info dict the driver builds for the open products
build_public_info(mo, open_product_ids) ==
    [product_id \in {open_product_ids[i] : i \in 1..Len(open_product_ids)} |->
       PublicInfo(get_tob(mo, product_id), mo.products[product_id].da_price,
                  mo.products[product_id])]

\* every product of the operator, whatever this tick closed
products_to_settle_all(mo, closed_products) ==
    [i \in 1..Cardinality(DOMAIN mo.products) |->
        mo.products[CHOOSE p \in DOMAIN mo.products :
                      Cardinality({q \in DOMAIN mo.products : q < p}) = i - 1]]

\* [mo.products[pid] for pid in closed_products]
RECURSIVE products_to_settle(_, _)
products_to_settle(mo, closed_products) ==
    IF closed_products = << >> THEN << >>
    ELSE <<mo.products[Head(closed_products)]>>
         \o products_to_settle(mo, Tail(closed_products))

\* a try block without except clauses
is_caught_never(raised) == FALSE

\* "except ValueError as e" and "except Exception as e": both clauses log the
\* exception and go on with the next order
is_caught(raised) == raised = "ValueError" \/ raised # ""

\* an agent loop that ends the tick after the first agent
after_agent_first(agents, i) == IF i < 1 THEN "decision" ELSE "log"

\* where the loop over the agents goes after the agent at place i: to the next
\* agent's decision, or to the logging at the end of the tick
after_agent(agents, i) == IF i < Len(agents) THEN "decision" ELSE "log"

InitSim ==
    /\ engine = "sim"
    /\ \E catalog \in SimCatalogs :
          /\ products = from_products(catalog).products
          /\ order_books = from_products(catalog).order_books
          /\ next_order_id = from_products(catalog).next_order_id
          /\ sim \in [pc : {"start"}, products : {catalog}, n_steps : {SimSteps},
                     enable_settlement : BOOLEAN, t : {0},
                     closed_products : {<< >>}, open_product_ids : {<< >>},
                     public_info : {EmptyDict}, i : {0}, orders : {<< >>},
                     agents : {SimAgents},
                     settled : {[p \in ProductIds |-> 0]}, calls : {0}]
    /\ order_book = MarketOperator(OrderBook(0)).order_book
    /\ mo_trades = MarketOperator(OrderBook(0)).trades
    /\ next_trade_id = MarketOperator(OrderBook(0)).next_trade_id
    /\ last = Call("init", None, 0, 0, "", << >>, << >>, 0)
    /\ settlement = Idle

\* mo = from_products(products); mo.update_product_status(t=0): the list of the
\* products this call closes is dropped
SimStart ==
    /\ engine = "sim" /\ sim.pc = "start"
    /\ LET r == update_product_status(self, 0)
       IN /\ SetOperator(r.mo)
          /\ last' = Call("update_product_status", None, 0, 0, "", << >>,
                          r.closed_products, 0)
    /\ sim' = [sim EXCEPT !.pc = IF 0 < sim.n_steps THEN "lifecycle" ELSE "done"]
    /\ UNCHANGED <<engine, single_vars, settlement>>

\* closed_products = mo.update_product_status(t)
SimLifecycle ==
    /\ engine = "sim" /\ sim.pc = "lifecycle"
    /\ LET r == update_product_status(self, sim.t)
       IN /\ SetOperator(r.mo)
          /\ last' = Call("update_product_status", None, 0, sim.t, "", << >>,
                          r.closed_products, 0)
          /\ sim' = [sim EXCEPT
                       !.closed_products = r.closed_products,
                       !.pc = IF r.closed_products # << >> /\ sim.enable_settlement
                              THEN "settlement" ELSE "snapshot"]
    /\ UNCHANGED <<engine, single_vars, settlement>>

\* "if closed_products and enable_settlement": settle_products, apply_to_revenue=True
SimSettlement ==
    /\ engine = "sim" /\ sim.pc = "settlement"
    /\ LET r == settle_products(products_to_settle(self, sim.closed_products),
                                sim.agents, SimOffset, 0, FALSE, NoRng, TRUE)
       IN sim' = [sim EXCEPT
                    !.agents = r.agents,
                    !.settled = [p \in ProductIds |->
                                   IF p \in DOMAIN r.all_results THEN @[p] + 1 ELSE @[p]],
                    !.pc = "snapshot"]
    /\ last' = Call("settle_products", None, 0, sim.t, "", << >>, sim.closed_products, 0)
    /\ UNCHANGED <<engine, multi_vars, single_vars, settlement>>

\* open_product_ids = mo.get_open_products(t) and the public_info of the tick
SimSnapshot ==
    /\ engine = "sim" /\ sim.pc = "snapshot"
    /\ LET open_product_ids == get_open_products(self, sim.t)
       IN sim' = [sim EXCEPT
                    !.open_product_ids = open_product_ids,
                    !.public_info = build_public_info(self, open_product_ids),
                    !.i = 0,
                    !.pc = after_agent(sim.agents, 0)]
    /\ last' = Call("get_open_products", None, 0, sim.t, "", << >>, << >>, 0)
    /\ UNCHANGED <<engine, multi_vars, single_vars, settlement>>

\* "for agent in agents": the next agent decides; a multi-product agent through
\* decide_orders, a single-product agent through decide_order on the first open
\* product, if there is one
SimDecide ==
    /\ engine = "sim" /\ sim.pc = "decision"
    /\ LET i == sim.i + 1
           agent == sim.agents[i]
           go(orders) ==
               sim' = [sim EXCEPT !.i = i, !.orders = orders,
                                  !.pc = IF orders # << >> THEN "processing"
                                         ELSE after_agent(sim.agents, i)]
       IN IF agent.is_multi_product
          THEN \E items \in MultiDecisions(agent.id) :
                  go(orders_to_process(items, sim.open_product_ids))
          ELSE IF sim.open_product_ids = << >>
               THEN go(<< >>)
               ELSE \E order \in SingleDecisions(agent.id) :
                       go(IF order = None THEN << >>
                          ELSE <<set_product_id(order, sim.open_product_ids[1])>>)
    /\ last' = Call("decide", None, 0, sim.t, "", << >>, << >>, 0)
    /\ UNCHANGED <<engine, multi_vars, single_vars, settlement>>

\* the try block for one order: process_order(order, t, validate_time=True), then
\* on_trade of buyer and seller for each trade; an exception ends the block, and one
\* that no except clause catches ends the run
SimProcessOrder ==
    /\ engine = "sim" /\ sim.pc = "processing"
    /\ LET order == Head(sim.orders)
           r == process_order(self, order, sim.t, TRUE)
           e == trade_effects(sim.agents, r.trades)
       IN /\ SetOperator(r.mo)
          /\ last' = Call("process_order",
                          IF r.raised = "" THEN r.order ELSE Rejected(r.order),
                          IF r.raised = "" THEN order.volume ELSE 0,
                          sim.t, r.raised, r.trades, << >>, 0)
          /\ sim' = [sim EXCEPT
                       !.agents = IF r.raised = "" THEN e.agents ELSE @,
                       !.calls = IF r.raised = "" THEN e.calls ELSE 0,
                       !.orders = IF r.raised # "" /\ ~is_caught(r.raised) THEN @
                                  ELSE Tail(@),
                       !.pc = IF r.raised # "" /\ ~is_caught(r.raised) THEN "raised"
                              ELSE IF Tail(sim.orders) # << >> THEN "processing"
                              ELSE after_agent(sim.agents, sim.i)]
    /\ UNCHANGED <<engine, single_vars, settlement>>

\* the logging at the end of the tick; then the next tick, or the end of the run
SimLog ==
    /\ engine = "sim" /\ sim.pc = "log"
    /\ sim' = [sim EXCEPT !.t = @ + 1,
                          !.pc = IF sim.t + 1 < sim.n_steps THEN "lifecycle" ELSE "done"]
    /\ last' = Call("log", None, 0, sim.t, "", << >>, << >>, 0)
    /\ UNCHANGED <<engine, multi_vars, single_vars, settlement>>

NextSim ==
    \/ SimStart
    \/ SimLifecycle
    \/ SimSettlement
    \/ SimSnapshot
    \/ SimDecide
    \/ SimProcessOrder
    \/ SimLog

SpecSim == InitSim /\ [][NextSim]_vars

PositionOf(agent, product_id) ==
    IF agent.is_multi_product
    THEN IF product_id \in DOMAIN agent.private_info.positions
         THEN agent.private_info.positions[product_id] ELSE 0
    ELSE agent.private_info.market_position
RevenueOf(agent, product_id) ==
    IF agent.is_multi_product
    THEN IF product_id \in DOMAIN agent.private_info.revenues
         THEN agent.private_info.revenues[product_id] ELSE 0
    ELSE agent.private_info.revenue

\* the volume, and the volume x price, of the trades of a list in which the agent
\* is the buyer (role "buy") or the seller (role "sell")
TradedAs(trades, agent_id, role, valued) ==
    SumSeq([k \in 1..Len(trades) |->
              IF (IF role = "buy" THEN trades[k].buy_agent_id
                  ELSE trades[k].sell_agent_id) = agent_id
              THEN IF valued THEN trades[k].volume * trades[k].price
                   ELSE trades[k].volume
              ELSE 0])

\* C15: Apply-to-both-sides: for every trade process_order returns inside the driver
\* exactly two private-state updates occur: the buyer's position for the product
\* decreases by the traded volume and its revenue by volume x price, the seller's
\* position and revenue increase by the same amounts, also when the buyer or seller
\* is the owner of the resting order; nothing else of the private state changes
C15_Step ==
    (engine = "sim" /\ sim.pc = "processing" /\ last'.op = "process_order"
       /\ last'.raised = "") =>
       LET trades == last'.trades
           traded == {trades[k].product_id : k \in 1..Len(trades)}
       IN /\ sim'.calls = 2 * Len(trades)
          /\ \A k \in 1..Len(trades) :
                /\ agent_by_id(sim.agents, trades[k].buy_agent_id) # 0
                /\ agent_by_id(sim.agents, trades[k].sell_agent_id) # 0
          /\ traded \subseteq {last'.order.product_id}
          /\ \A a \in 1..Len(sim.agents) :
                LET before == sim.agents[a]
                    after == sim'.agents[a]
                IN /\ \A p \in traded :
                         /\ PositionOf(after, p) =
                               PositionOf(before, p)
                               - TradedAs(trades, before.id, "buy", FALSE)
                               + TradedAs(trades, before.id, "sell", FALSE)
                         /\ RevenueOf(after, p) =
                               RevenueOf(before, p)
                               - TradedAs(trades, before.id, "buy", TRUE)
                               + TradedAs(trades, before.id, "sell", TRUE)
                   /\ \A p \in ProductIds \ traded :
                         before.is_multi_product =>
                            /\ PositionOf(after, p) = PositionOf(before, p)
                            /\ RevenueOf(after, p) = RevenueOf(before, p)
                   /\ traded = {} => after = before
PhaseRank(pc) ==
    CASE pc = "lifecycle" -> 1
      [] pc = "settlement" -> 2
      [] pc = "snapshot" -> 3
      [] pc = "decision" -> 4
      [] pc = "processing" -> 5
      [] OTHER -> 6

InTick(pc) == pc \in {"lifecycle", "settlement", "snapshot", "decision", "processing"}

\* C16 as stated: Tick phase order: in every tick the phases run in the fixed order
\* lifecycle advance -> settlement -> public-info snapshot -> agent decisions ->
\* order processing, each phase finishing before the next phase of the tick starts:
\* within a tick no step of an earlier phase follows a step of a later one
C16_PhasesInOrder_Step ==
    (engine = "sim" /\ InTick(sim.pc) /\ InTick(sim'.pc) /\ sim'.t = sim.t) =>
        PhaseRank(sim'.pc) >= PhaseRank(sim.pc)
C16_PhasesInOrder == [][C16_PhasesInOrder_Step]_vars

\* C16 amended: in every tick the lifecycle advance comes first, then the settlement
\* of exactly the products that advance closed (if it closed any and settlement is
\* enabled), then the public-info snapshot, each finishing before the next starts and
\* all three before any agent acts; then the agents take their turns in list order,
\* and in each turn the agent's decision comes first and the processing of the
\* orders of that decision follows, before the next agent decides; the tick ends
\* after the last agent's turn
C16_Step ==
    (engine = "sim" /\ sim' # sim) =>
       /\ sim.pc = "lifecycle" =>
             /\ sim'.t = sim.t
             /\ sim'.pc = IF sim'.closed_products # << >> /\ sim.enable_settlement
                          THEN "settlement" ELSE "snapshot"
             /\ {sim'.closed_products[k] : k \in 1..Len(sim'.closed_products)}
                   = {p \in ProductIds : products[p].status # CLOSED
                                         /\ products'[p].status = CLOSED}
       /\ sim.pc = "settlement" =>
             /\ sim'.t = sim.t /\ sim'.pc = "snapshot"
             /\ \A p \in ProductIds :
                   sim'.settled[p] - sim.settled[p] =
                      IF \E k \in 1..Len(sim.closed_products) : sim.closed_products[k] = p
                      THEN 1 ELSE 0
       /\ sim.pc = "snapshot" =>
             /\ sim'.t = sim.t /\ sim'.i = 0
             /\ sim'.pc = IF Len(sim.agents) > 0 THEN "decision" ELSE "log"
       /\ sim.pc = "decision" =>
             /\ sim'.t = sim.t /\ sim'.i = sim.i + 1
             /\ \A k \in 1..Len(sim'.orders) : sim'.orders[k].agent_id = sim.agents[sim'.i].id
       /\ sim.pc = "processing" =>
             /\ sim'.t = sim.t /\ sim'.i = sim.i
             /\ sim'.orders = Tail(sim.orders)
       /\ sim.pc \in {"decision", "processing"} =>
             sim'.pc = IF sim'.orders # << >> THEN "processing"
                       ELSE IF sim'.i < Len(sim.agents) THEN "decision"
                       ELSE "log"
       /\ sim.pc = "log" =>
             /\ sim'.t = sim.t + 1
             /\ sim'.pc = IF sim'.t < sim.n_steps THEN "lifecycle" ELSE "done"
       /\ sim.pc = "done" => FALSE
C16_TickOrder == [][C16_Step]_vars

\* tick 1: product 0 was closed by the advance and settled, the snapshot named
\* product 1, agent 1 decided and its order was processed and rests in the book of
\* product 1, and agent 2 has decided on an order that is about to be processed
C16_Witness ==
    /\ engine = "sim" /\ sim.t = 1 /\ sim.pc = "processing" /\ sim.i = 2
    /\ sim.closed_products = <<0>> /\ sim.settled[0] = 1
    /\ sim.open_product_ids = <<1>>
    /\ \E o \in BookOrders(order_books[1]) : o.agent_id = 1
    /\ Head(sim.orders).agent_id = 2

\* C19: UnknownProduct is fatal: when an order whose product_id is not in the catalog
\* reaches process_order during a run, the failure propagates out of the driver: the
\* run ends with the exception and the order is not skipped like a ProductNotOpen one
C19_Step ==
    (engine = "sim" /\ sim.pc = "processing"
       /\ Head(sim.orders).product_id \notin DOMAIN products
       /\ last'.op = "process_order") =>
          /\ last'.raised # ""
          /\ sim'.pc = "raised"
C19_UnknownProductFatal == [][C19_Step]_vars

\* C20: ProductNotOpen is recoverable: when process_order rejects an order because
\* its product is not open, the driver drops only that order and continues: nothing
\* of the operator or of the agents changes, and the run goes on where it goes on
\* after an accepted order: with the remaining orders of the agent, then the
\* remaining agents of the tick, then the end of the tick and the later ticks
C20_Step ==
    (engine = "sim" /\ sim.pc = "processing"
       /\ Head(sim.orders).product_id \in DOMAIN products
       /\ ~Tradable(products[Head(sim.orders).product_id], sim.t)
       /\ last'.op = "process_order") =>
          /\ last'.raised = "ValueError" /\ last'.trades = << >>
          /\ UNCHANGED <<products, order_books>>
          /\ sim'.agents = sim.agents
          /\ sim'.orders = Tail(sim.orders)
          /\ sim'.t = sim.t /\ sim'.i = sim.i
          /\ sim'.pc = IF sim'.orders # << >> THEN "processing"
                       ELSE IF sim.i < Len(sim.agents) THEN "decision"
                       ELSE "log"
NotOpenRejected ==
    /\ engine = "sim" /\ last.op = "process_order" /\ last.raised = "ValueError"
    /\ last.order.product_id \in DOMAIN products
C20_Recoverable == [][C20_Step]_vars

\* at tick 0 the first order of agent 1 named product 1, which is not open, and was
\* rejected; nothing rests in the books, and the second order of agent 1 is about to
\* be processed
C20_Witness ==
    /\ NotOpenRejected
    /\ sim.t = 0 /\ sim.i = 1 /\ last.order.product_id = 1
    /\ sim.pc = "processing" /\ Len(sim.orders) = 1
    /\ Head(sim.orders).product_id = 0
    /\ BookLen(order_books[0]) + BookLen(order_books[1]) = 0

(***************************************************************************)
(* process_order with orders of any price and volume: product 0 is opened  *)
(* at tick 0 and submitters hand in orders whose price or volume may be 0  *)
(***************************************************************************)
AnyOrderInputs ==
    [id : SubmittedIds, agent_id : {1}, side : {BUY, SELL}, price : 0..MaxPrice,
     volume : 0..MaxVolume, product_id : {0}, time_in_force : {GTC, IOC},
     timestamp : {-1}]

\* a process_order call with any order; the ghost keeps the order as handed in
\* next to the order object after the call
AnyProcessOrder ==
    \E order \in AnyOrderInputs, t \in {0} :
        /\ engine = "multi"
        /\ next_order_id <= MaxOrders
        /\ LET r == process_order(self, order, t, TRUE)
           IN /\ SetOperator(r.mo)
              /\ last' = Call("process_order", r.order, order.volume, t, r.raised,
                              r.trades, << >>, 0)
        /\ UNCHANGED <<engine, single_vars, driver_vars>>

\* MarketOperator.process_order with any order
AnyMOProcessOrder ==
    \E incoming \in [id : SubmittedIds, agent_id : {1}, side : {BUY, SELL},
                     product_id : {0}, volume : 0..MaxVolume, price : 0..MaxPrice,
                     time : {0}, tif : {GTC, IOC}, status : {"ACTIVE"}] :
        /\ engine = "single"
        /\ BookLen(order_book) + next_trade_id < MaxOrders
        /\ LET r == MO_process_order(mo_self, incoming, 0)
           IN /\ order_book' = r.mo.order_book
              /\ mo_trades' = r.mo.trades
              /\ next_trade_id' = r.mo.next_trade_id
              /\ last' = Call("process_order", r.order, incoming.volume, 0,
                              r.raised, r.trades, << >>, 0)
        /\ UNCHANGED <<engine, multi_vars, driver_vars>>

NextAny ==
    \/ LevelOpenProducts
    \/ AnyProcessOrder
    \/ AnyMOProcessOrder

SpecAny == Init /\ [][NextAny]_vars

\* the order handed to the call is invalid: its volume or its price is not positive
InvalidOrder(volume_in, price) == volume_in <= 0 \/ price <= 0

\* C21: process_order rejects every order whose volume is <= 0 or whose price is
\* <= 0 with an InvalidOrder error before the order reaches the book: no trade is
\* produced, no order is added, and no resting order is changed (any error the
\* call raises counts as the rejection)
C21_Step ==
    (engine = "multi" /\ last'.op = "process_order"
       /\ InvalidOrder(last'.volume_in, last'.order.price)) =>
        /\ last'.raised # ""
        /\ last'.trades = << >>
        /\ order_books' = order_books
C21_InvalidOrderRejected == [][C21_Step]_vars

(***************************************************************************)
(* settle_products called a second time for the product it settled         *)
(***************************************************************************)
\* the second settle_products([product], agents, ...) call, on the agents as the
\* first call left them; the function keeps no record of settled products and has
\* no error outcome
SettleProductsAgain ==
    \E up \in uniform(settlement.volatility), down \in uniform(settlement.volatility) :
        /\ engine = "settle"
        /\ settlement.pc = "settle_products"
        /\ settlement.use_stochastic \/ (up = 0 /\ down = 0)
        /\ LET r == settle_products(<<settlement.product>>, settlement.agents_after,
                                    settlement.base_offset, settlement.volatility,
                                    settlement.use_stochastic, <<(<<up, down>>)>>,
                                    settlement.apply_to_revenue)
           IN settlement' = [settlement EXCEPT
                               !.pc = "settle_products_again",
                               !.rng = <<up, down>>,
                               !.agents = settlement.agents_after,
                               !.agents_after = r.agents,
                               !.results = r.all_results[settlement.product.product_id]]
        /\ UNCHANGED <<engine, multi_vars, single_vars, last, sim>>

NextSettleAgain ==
    \/ SettleProducts
    \/ SettleProductsAgain

SpecSettleAgain == InitSettle /\ [][NextSettleAgain]_vars

\* C22: invoking settlement a second time for a product that was already settled is
\* rejected as a DoubleSettlement error and does not deduct the imbalance cost from
\* any agent's revenue a second time
C22_Step ==
    (engine = "settle" /\ settlement.pc = "settle_products"
       /\ settlement'.pc # settlement.pc) =>
          /\ settlement'.pc = "DoubleSettlement"
          /\ settlement'.agents_after = settlement.agents_after
C22_DoubleSettlementRejected == [][C22_Step]_vars

\* C23: for every book with finitely many resting orders and every incoming order,
\* match_order / process_order terminates, has no error outcome, and returns at most
\* as many trades as there were resting opposite-side orders when the call started.
\* Every step of the two process_order actions is the value of the matching
\* recursion on the book and the order of the step: the call has terminated with
\* this result. The only error of a call is the rejection of an order for a product
\* that is not open, raised before matching starts.
C23_Step ==
    last'.op = "process_order" =>
        /\ Len(Returned) <= SideLen(Opposite(BookBefore, last'.order))
        /\ last'.raised # "" =>
              /\ engine = "multi"
              /\ ~is_open(order_books[last'.order.product_id], last'.t)
              /\ Returned = << >>
C23_MatchingTerminates == [][C23_Step]_vars

\* a call swept two resting orders with two trades and emptied the opposite side
C23_Witness ==
    /\ last.op = "process_order" /\ last.raised = ""
    /\ Len(last.trades) = 2
    /\ LET book == IF engine = "multi" THEN order_books[0] ELSE order_book
       IN Opposite(book, last.order) = EmptyDict

\* the level of a side at price p (empty when the price is no key of the side)
LevelAt(side, p) == IF p \in DOMAIN side THEN side[p] ELSE << >>

\* level after is level before without its first k orders, the new head possibly
\* with less volume
HeadsRemoved(before, after, k) ==
    /\ Len(after) = Len(before) - k
    /\ \A i \in 1..Len(after) :
          IF i = 1
          THEN /\ after[i].id = before[k + i].id
               /\ after[i].agent_id = before[k + i].agent_id
               /\ after[i].side = before[k + i].side
               /\ after[i].price = before[k + i].price
               /\ after[i].volume <= before[k + i].volume
          ELSE after[i] = before[k + i]

\* C24: after every completed process_order call, every order resting in any book
\* has remaining volume > 0; a resting order whose volume reaches 0 during matching
\* is removed in the same call and the next order at that price level becomes the
\* head of the level
C24_Step ==
    last'.op = "process_order" =>
        /\ \A o \in AllResting(order_books') \cup BookOrders(order_book') : o.volume > 0
        /\ \A p \in DOMAIN Opposite(BookBefore, last'.order) :
              LET before == Opposite(BookBefore, last'.order)[p]
                  after == LevelAt(Opposite(BookAfter, last'.order), p)
                  \* the orders of the level filled completely by the call's trades
                  gone == {i \in 1..Len(before) :
                             SumSeq([j \in 1..Len(Returned) |->
                                 IF /\ RestingId(Returned[j], last'.order) = before[i].id
                                    /\ Returned[j].price = p
                                    /\ engine = "multi"
                                 THEN Returned[j].volume ELSE 0]) = before[i].volume}
              IN /\ \E k \in 0..Len(before) : HeadsRemoved(before, after, k)
                 /\ engine = "multi" => HeadsRemoved(before, after, Cardinality(gone))
C24_NoZeroVolumeResting == [][C24_Step]_vars

\* a call filled the head of a level of two orders completely: the head is gone and
\* the later order heads the level, with positive volume
C24_Witness ==
    /\ engine = "multi" /\ last.op = "process_order" /\ Len(last.trades) = 1
    /\ LET level == LevelAt(Opposite(order_books[0], last.order), last.trades[1].price)
       IN /\ Len(level) = 1
          /\ level[1].id > RestingIdOf(last.trades[1])
          /\ level[1].volume > 0
          /\ last.order.volume = 0

(***************************************************************************)
(* process_order with volumes that differ by less than the tolerance:      *)
(* volumes are counted in units of 0.5e-9, orders of 1.5e-9 and 2e-9 at    *)
(* one price meet in product 0 and in the single-product book              *)
(***************************************************************************)
FineVolumes == {FineTolerance + 1, FineTolerance + 2}

InitFine ==
    /\ engine \in FineEngines
    /\ products = from_products(Catalog).products
    /\ order_books = from_products(Catalog).order_books
    /\ next_order_id = from_products(Catalog).next_order_id
    /\ order_book = MarketOperator(OrderBook(0)).order_book
    /\ mo_trades = MarketOperator(OrderBook(0)).trades
    /\ next_trade_id = MarketOperator(OrderBook(0)).next_trade_id
    /\ last = Call("init", None, 0, 0, "", << >>, << >>, 0)
    /\ sim = Idle
    /\ settlement = Idle

FineOpenProducts ==
    /\ engine = "multi_fine"
    /\ LET r == open_products(self, 0)
       IN /\ SetOperator(r.mo)
          /\ last' = Call("open_products", None, 0, 0, "", << >>, r.opened, 0)
    /\ UNCHANGED <<engine, single_vars, driver_vars>>

FineProcessOrder ==
    \E order \in [id : SubmittedIds, agent_id : {1}, side : {BUY, SELL}, price : {1},
                  volume : FineVolumes, product_id : {0}, time_in_force : {GTC, IOC},
                  timestamp : {-1}] :
        /\ engine = "multi_fine"
        /\ next_order_id <= MaxOrders
        /\ LET r == process_order(self, order, 0, TRUE)
           IN /\ SetOperator(r.mo)
              /\ last' = Call("process_order", r.order, order.volume, 0, r.raised,
                              r.trades, << >>, 0)
        /\ UNCHANGED <<engine, single_vars, driver_vars>>

FineMOProcessOrder ==
    \E incoming \in [id : SubmittedIds, agent_id : {1}, side : {BUY, SELL},
                     product_id : {0}, volume : FineVolumes, price : {1},
                     time : {0}, tif : {GTC, IOC}, status : {"ACTIVE"}] :
        /\ engine = "single_fine"
        /\ BookLen(order_book) + next_trade_id < MaxOrders
        /\ LET r == MO_process_order(mo_self, incoming, 0)
           IN /\ order_book' = r.mo.order_book
              /\ mo_trades' = r.mo.trades
              /\ next_trade_id' = r.mo.next_trade_id
              /\ last' = Call("process_order", r.order, incoming.volume, 0,
                              r.raised, r.trades, << >>, 0)
        /\ UNCHANGED <<engine, multi_vars, driver_vars>>

NextFine ==
    \/ FineOpenProducts
    \/ FineProcessOrder
    \/ FineMOProcessOrder

SpecFine == InitFine /\ [][NextFine]_vars

\* a volume that is effectively zero: positive but below the tolerance
Residue(volume) == 0 < volume /\ volume < FineTolerance

\* C25: during matching, a resting order whose remaining volume after a fill is
\* effectively zero (positive but below the tolerance, 1e-9 in MarketOperator) is
\* removed from the book like a zero-volume order, and an incoming order with only
\* such a residue left is treated as fully filled (not placed in the book), in both
\* MarketOperator.process_order and MultiProductMarketOperator.process_order: after
\* a call no resting order has a residue as its volume
C25_Step ==
    (last'.op = "process_order" /\ last'.raised = "") =>
        \A o \in AllResting(order_books') \cup BookOrders(order_book') :
            ~Residue(o.volume)
C25_ResiduesRemoved == [][C25_Step]_vars

\* C25, the half about MarketOperator.process_order: the single-product operator
\* alone keeps the property
C25_SingleStep == engine = "single_fine" => C25_Step
C25_SingleResiduesRemoved == [][C25_SingleStep]_vars

\* the elements of a list
Elements(list) == {list[i] : i \in 1..Len(list)}

\* the products a step moves from one status to another
Moved(from, to) ==
    {p \in ProductIds : products[p].status = from /\ products'[p].status = to}

\* C26 as stated: the Settlement Engine is invoked for a product at the tick of that
\* product's Closed->Settled transition (current tick >= delivery-window end), and
\* not at any earlier tick
C26_StatedStep ==
    engine = "sim" =>
        /\ sim.pc = "settlement" =>
              \A p \in Elements(sim.closed_products) :
                  sim.t >= products[p].delivery_end /\ products[p].status = SETTLED
        /\ (sim.pc = "lifecycle" /\ sim.enable_settlement /\ Moved(CLOSED, SETTLED) # {}) =>
              sim'.pc = "settlement"
C26_Step ==
    engine = "sim" =>
        /\ sim.pc = "lifecycle" =>
              /\ Elements(sim'.closed_products) = Moved(OPEN, CLOSED)
              /\ \A p \in Moved(OPEN, CLOSED) : sim.t >= products[p].gate_close
              /\ sim'.pc = "settlement" <=>
                    (Moved(OPEN, CLOSED) # {} /\ sim.enable_settlement)
        /\ sim.pc = "settlement" =>
              /\ sim'.t = sim.t /\ UNCHANGED products
              /\ \A p \in ProductIds :
                    sim'.settled[p] = sim.settled[p]
                       + (IF p \in Elements(sim.closed_products) THEN 1 ELSE 0)
        /\ sim.pc # "settlement" => sim'.settled = sim.settled
TimingCatalogs ==
    {[p \in ProductIds |-> IF p = 0 THEN Catalog[0] ELSE Product(1, 1, 1, 2, 3)],
     [p \in ProductIds |-> IF p = 0 THEN Product(0, 0, 0, 2, 3) ELSE Catalog[1]]}

InitTiming ==
    /\ engine = "sim"
    /\ \E catalog \in TimingCatalogs :
          /\ products = from_products(catalog).products
          /\ order_books = from_products(catalog).order_books
          /\ next_order_id = from_products(catalog).next_order_id
          /\ sim \in [pc : {"start"}, products : {catalog}, n_steps : {SimSteps},
                     enable_settlement : BOOLEAN, t : {0},
                     closed_products : {<< >>}, open_product_ids : {<< >>},
                     public_info : {EmptyDict}, i : {0}, orders : {<< >>},
                     agents : {SimAgents},
                     settled : {[p \in ProductIds |-> 0]}, calls : {0}]
    /\ order_book = MarketOperator(OrderBook(0)).order_book
    /\ mo_trades = MarketOperator(OrderBook(0)).trades
    /\ next_trade_id = MarketOperator(OrderBook(0)).next_trade_id
    /\ last = Call("init", None, 0, 0, "", << >>, << >>, 0)
    /\ settlement = Idle

SpecTiming == InitTiming /\ [][NextSim]_vars

\* C27: when update_product_status(t) is called once per tick for consecutive ticks
\* (as the driver does, including its initial call at t=0), then after each call
\* returns no product has status Open while t >= its gate_close, for every product
\* timing (including products whose gate_open and gate_close are both already
\* reached when first examined)
C27_Step ==
    (engine = "sim" /\ sim.pc \in {"start", "lifecycle"}
       /\ last'.op = "update_product_status") =>
          \A p \in ProductIds :
              ~(products'[p].status = OPEN /\ last'.t >= products'[p].gate_close)
C27_StatusFollowsTick == [][C27_Step]_vars

\* C28: update_product_status(t) returns exactly the set of product ids whose status
\* changed Open->Closed during that call: it contains no product that was opened or
\* settled by the call, none that stayed unchanged, and no product that was already
\* Closed before the call (and names no product twice)
C28_Step ==
    (engine = "multi" /\ last'.op = "update_product_status") =>
        /\ Elements(last'.ids) = Moved(OPEN, CLOSED)
        /\ Len(last'.ids) = Cardinality(Moved(OPEN, CLOSED))
C28_ClosedReport == [][C28_Step]_vars

\* the call of tick 1 closed product 0 and reported it alone, while product 1 is Open
C28_Witness ==
    /\ engine = "multi" /\ last.op = "update_product_status" /\ last.t = 1
    /\ last.ids = <<0>>
    /\ products[0].status = CLOSED /\ products[1].status = OPEN

\* C29: process_order for an order with product_id p changes only the book of p (the
\* resting orders, their volumes and their priority in every other product's book
\* are unchanged), and every trade it returns carries product_id p and pairs the
\* incoming order with an order that was resting in p's book
C29_Step ==
    (engine = "multi" /\ last'.op = "process_order") =>
        LET p == last'.order.product_id
            incoming == last'.order
        IN /\ \A q \in DOMAIN order_books : q # p => order_books'[q] = order_books[q]
           /\ DOMAIN order_books' = DOMAIN order_books
           /\ \A k \in 1..Len(Returned) :
                 /\ Returned[k].product_id = p
                 /\ p \in DOMAIN order_books
                 /\ (IF incoming.side = BUY THEN Returned[k].buy_order_id
                     ELSE Returned[k].sell_order_id) = incoming.id
                 /\ \E o \in SideOrders(Opposite(order_books[p], incoming)) :
                       o.id = RestingId(Returned[k], incoming)
                 /\ \A q \in DOMAIN order_books : q # p =>
                       \A o \in BookOrders(order_books[q]) :
                           o.id # RestingId(Returned[k], incoming)
C29_RoutingIsolation == [][C29_Step]_vars

\* an order for product 1 traded against an order resting in product 1 while an
\* order rests in the book of product 0
C29_Witness ==
    /\ engine = "multi" /\ last.op = "process_order" /\ last.order.product_id = 1
    /\ Len(last.trades) = 1 /\ last.trades[1].product_id = 1
    /\ BookLen(order_books[0]) = 1 /\ BookLen(order_books[1]) = 0

\* the orders of a level that do not belong to the agent, in the order of the level
OthersAt(side, p, agent_id) ==
    SelectSeq(LevelAt(side, p), LAMBDA o : o.agent_id # agent_id)

\* a side after the cancellation: at every price the other agents' orders as they
\* were, in their order, and no other price
OthersKept(before, after, agent_id) ==
    /\ DOMAIN after \subseteq DOMAIN before
    /\ \A p \in DOMAIN before : LevelAt(after, p) = OthersAt(before, p, agent_id)
    /\ \A p \in DOMAIN after : after[p] # << >>

\* C30: cancel_agent_orders(agent_id, product_id?) leaves every resting order of
\* every other agent unchanged (same book, same price, same remaining volume and
\* same relative fill priority among the remaining orders) and, when a product_id
\* is given, leaves the books of all other products (including that agent's orders
\* there) unchanged; with a product_id not in the catalog it returns 0 and changes
\* nothing
C30_Step ==
    (engine = "multi" /\ last'.op = "cancel_agent_orders") =>
       LET agent_id == last'.order.agent_id
           product_id == last'.order.product_id
       IN /\ \A p \in DOMAIN order_books :
                IF product_id = NoProductId \/ product_id = p
                THEN /\ OthersKept(order_books[p].bids, order_books'[p].bids, agent_id)
                     /\ OthersKept(order_books[p].asks, order_books'[p].asks, agent_id)
                     /\ order_books'[p].product = order_books[p].product
                ELSE order_books'[p] = order_books[p]
          /\ DOMAIN order_books' = DOMAIN order_books
          /\ (product_id # NoProductId /\ product_id \notin DOMAIN order_books) =>
                /\ last'.count = 0
                /\ UNCHANGED <<products, order_books, next_order_id>>
C30_CancelFrame == [][C30_Step]_vars

\* agent 1's order, the second of three at one price of product 0, was cancelled: the
\* two orders of agent 2 rest at that level in their order of arrival
C30_Witness ==
    /\ engine = "multi" /\ last.op = "cancel_agent_orders"
    /\ last.order.agent_id = 1 /\ last.order.product_id = 0 /\ last.count = 1
    /\ \E p \in DOMAIN order_books[0].bids :
          /\ Len(order_books[0].bids[p]) = 2
          /\ order_books[0].bids[p][1].id = 1 /\ order_books[0].bids[p][2].id = 3
          /\ order_books[0].bids[p][1].agent_id = 2

\* the cost a settlement charged an agent: the imbalance cost of its result, 0 when
\* the settlement has no result for the agent
ChargedCost(agent_id) ==
    LET charged == {r \in SettlementResults : r.agent_id = agent_id}
    IN SumOver(charged, [r \in charged |-> r.imbalance_cost])

\* C31: Settlement write-back: settling one agent for one product with cost c (and
\* the cost applied to the revenue, as the driver asks) decreases that agent's
\* cumulative revenue for that product by exactly c and changes nothing else - the
\* agent's positions and day-ahead positions, its revenue for other products, and
\* every other agent's state are unchanged
C31_WriteBack ==
    (/\ settlement.pc \in {"settle_products", "settle_agent_product"}
     /\ settlement.apply_to_revenue) =>
        LET product_id == settlement.product.product_id
        IN \A i \in 1..Len(settlement.agents) :
              LET before == settlement.agents[i]
                  after == settlement.agents_after[i]
                  settled == \E r \in SettlementResults : r.agent_id = before.id
              IN /\ RevenueOf(after, product_id)
                       = RevenueOf(before, product_id) - ChargedCost(before.id)
                 /\ ~settled => after = before
                 /\ after.id = before.id
                 /\ after.is_multi_product = before.is_multi_product
                 /\ IF before.is_multi_product
                    THEN /\ after.private_info.positions = before.private_info.positions
                         /\ after.private_info.da_positions
                               = before.private_info.da_positions
                         /\ \A q \in (DOMAIN before.private_info.revenues
                                        \cup DOMAIN after.private_info.revenues)
                                     \ {product_id} :
                               /\ q \in DOMAIN before.private_info.revenues
                               /\ q \in DOMAIN after.private_info.revenues
                               /\ after.private_info.revenues[q]
                                     = before.private_info.revenues[q]
                    ELSE /\ after.private_info.market_position
                               = before.private_info.market_position
                         /\ after.private_info.da_position
                               = before.private_info.da_position

\* the same for the settlements in which no agent's cost is negative
C31_NonNegativeCostWriteBack ==
    (\A r \in SettlementResults : r.imbalance_cost >= 0) => C31_WriteBack

\* agent 2, short by one unit of product 0 at an upward price of 2, was settled on
\* its own: its revenue for product 0 fell from 1 to -1, its revenue of 2 for product
\* 1 is as it was, and agents 1 and 3 are as they were handed in
C31_Witness ==
    /\ settlement.pc = "settle_agent_product"
    /\ settlement.apply_to_revenue
    /\ settlement.results[1].agent_id = 2
    /\ settlement.results[1].imbalance_cost = 2
    /\ settlement.agents_after[2].private_info.revenues = DictSet(DictSet(EmptyDict, 0, -1), 1, 2)
    /\ settlement.agents_after[1] = settlement.agents[1]
    /\ settlement.agents_after[3] = settlement.agents[3]

\* the ids of the orders resting in the books
RestingIds(books) == {o.id : o \in AllResting(books)}

\* the ids the operator has given out so far that rest in no book: the orders that
\* were filled, cancelled or purged at gate close (and those that never rested)
GoneIds == (1..(next_order_id - 1)) \ RestingIds(order_books)

\* C32: No resurrection: once an order has left its book - fully filled, cancelled
\* by cancel_agent_orders, or purged at gate close - its order id never again rests
\* in any book and never appears in any later trade, under any later sequence of
\* operations: every operation keeps every id that is gone out of the books and out
\* of its trades
C32_Step ==
    engine = "multi" =>
       \A id \in GoneIds :
          /\ id \notin RestingIds(order_books')
          /\ last'.op = "process_order" =>
                \A k \in 1..Len(last'.trades) :
                   /\ last'.trades[k].buy_order_id # id
                   /\ last'.trades[k].sell_order_id # id
C32_NoResurrection == [][C32_Step]_vars

\* the order with id 1 has left the books, and after that the order with id 3
\* traded against the resting order with id 2
C32_Witness ==
    /\ engine = "multi"
    /\ last.op = "process_order"
    /\ last.order.id = 3
    /\ 1 \in GoneIds
    /\ \E k \in 1..Len(last.trades) : RestingIdOf(last.trades[k]) = 2

\* C33: get_open_products(t) returns exactly the products whose status is Open and
\* for which gate_open <= t < gate_close, at the tick the driver asks for and at
\* every other tick it could be asked for in the same operator state; in particular
\* a product whose status is still Open is not reported as open once t >= gate_close
C33_OpenProducts ==
    engine = "sim" =>
       /\ \A t \in Ticks :
             /\ Elements(get_open_products(self, t))
                   = {p \in DOMAIN products : Tradable(products[p], t)}
             /\ Len(get_open_products(self, t))
                   = Cardinality(Elements(get_open_products(self, t)))
       /\ last.op = "get_open_products" =>
             Elements(sim.open_product_ids)
                = {p \in DOMAIN products : Tradable(products[p], sim.t)}

\* the driver asked for the open products at a tick at which a product has the
\* status Open and its gate has closed: the list leaves that product out
C33_Witness ==
    /\ engine = "sim"
    /\ last.op = "get_open_products"
    /\ \E p \in ProductIds :
          /\ products[p].status = OPEN
          /\ sim.t >= products[p].gate_close
          /\ p \notin Elements(sim.open_product_ids)

\* the products an open_products(t) call is due to open: Pending, and t >= gate_open
DueToOpen(t) ==
    {p \in DOMAIN products : products[p].status = PENDING /\ t >= products[p].gate_open}

\* C34: open_products(t) moves to Open exactly the products that are Pending and
\* have t >= gate_open, returns exactly their ids, and leaves every product that is
\* Open, Closed or Settled (and every Pending product with t < gate_open) unchanged;
\* calling it again with the same t opens nothing and returns an empty list
C34_Step ==
    (engine = "multi" /\ last'.op = "open_products") =>
       /\ Elements(last'.ids) = DueToOpen(last'.t)
       /\ Len(last'.ids) = Cardinality(DueToOpen(last'.t))
       /\ DOMAIN products' = DOMAIN products
       /\ \A p \in DOMAIN products :
             IF p \in DueToOpen(last'.t)
             THEN /\ products'[p] = [products[p] EXCEPT !.status = OPEN]
                  /\ order_books'[p] = [order_books[p] EXCEPT !.product = products'[p]]
             ELSE /\ products'[p] = products[p]
                  /\ order_books'[p] = order_books[p]
       /\ next_order_id' = next_order_id
       /\ open_products(self', last'.t).opened = << >>
       /\ open_products(self', last'.t).mo = self'
C34_OpenProducts == [][C34_Step]_vars

\* open_products(1) found product 0 Open with resting orders and product 1 Pending
\* with its gate open: it returned [1], product 1 is Open and product 0 is as it was
C34_Witness ==
    /\ engine = "multi"
    /\ last.op = "open_products"
    /\ last.t = 1
    /\ last.ids = <<1>>
    /\ products[1].status = OPEN
    /\ products[0].status = OPEN
    /\ BookOrders(order_books[0]) # {}

\* the best price of a side and the total remaining volume of all orders resting at
\* it ("none" if the side is empty)
LevelTopOf(side, best) ==
    IF SideOrders(side) = {} THEN "none"
    ELSE LET price == IF best = "highest" THEN Max({o.price : o \in SideOrders(side)})
                      ELSE Min({o.price : o \in SideOrders(side)})
         IN <<price, LevelVolume(side[price])>>

\* C35: Top-of-book volume: get_tob(product_id) reports for each non-empty side the
\* best price and the volume at that best price level, i.e. the total remaining
\* volume of all orders resting at the best price, and reports the side as absent
\* (None) when it is empty
C35_LevelVolume ==
    (engine = "multi" /\ last.op = "get_public_info") =>
        \A p \in DOMAIN last.info :
           LET tob == last.info[p].tob
           IN /\ tob = get_tob(self, p)
              /\ Shown(tob.has_bid, tob.best_bid_price, tob.best_bid_volume)
                    = LevelTopOf(order_books[p].bids, "highest")
              /\ Shown(tob.has_ask, tob.best_ask_price, tob.best_ask_volume)
                    = LevelTopOf(order_books[p].asks, "lowest")

\* the first order at the best price at which an order rests on a side, none if no
\* order rests on it
BestOf(side, best, none) ==
    IF SideOrders(side) = {} THEN none
    ELSE LET price == IF best = "highest" THEN Max({o.price : o \in SideOrders(side)})
                      ELSE Min({o.price : o \in SideOrders(side)})
         IN side[price][1]

\* every price level of a side holds an order, and holds orders of its price only
NoEmptyLevel(side) ==
    \A price \in DOMAIN side :
       /\ side[price] # << >>
       /\ \A i \in 1..Len(side[price]) : side[price][i].price = price

\* C36: Best-of-side lookup: after any sequence of add, match, remove,
\* remove-by-agent and clear operations, best_bid() (best_ask()) returns absent if
\* and only if no bid (ask) order rests in the book, and otherwise returns the
\* earliest-arrived order at the highest bid (lowest ask) price; no emptied price
\* level is left behind that would hide resting orders at other prices
C36_BestOfSide ==
    /\ engine = "multi" =>
          \A p \in DOMAIN order_books :
             LET ob == order_books[p]
             IN /\ best_bid(ob) = BestOf(ob.bids, "highest", None)
                /\ best_ask(ob) = BestOf(ob.asks, "lowest", None)
                /\ best_bid(ob) = None <=> SideOrders(ob.bids) = {}
                /\ best_ask(ob) = None <=> SideOrders(ob.asks) = {}
                /\ NoEmptyLevel(ob.bids) /\ NoEmptyLevel(ob.asks)
                \* ids follow arrival: the first order of a level is its oldest
                /\ \A side \in {ob.bids, ob.asks} :
                      \A price \in DOMAIN side :
                         \A i \in 1..Len(side[price]) :
                            side[price][1].id <= side[price][i].id
    /\ engine = "single" =>
          /\ OrderBook_best_bid(order_book) = BestOf(order_book.bids, "highest", NoneOrder)
          /\ OrderBook_best_ask(order_book) = BestOf(order_book.asks, "lowest", NoneOrder)
          /\ OrderBook_best_bid(order_book) = NoneOrder <=> SideOrders(order_book.bids) = {}
          /\ OrderBook_best_ask(order_book) = NoneOrder <=> SideOrders(order_book.asks) = {}
          /\ NoEmptyLevel(order_book.bids) /\ NoEmptyLevel(order_book.asks)

\* a match has emptied the best bid level of product 0 and removed it: the book
\* holds bids at a lower price only, and best_bid returns the first of them
C36_Witness ==
    /\ engine = "multi"
    /\ last.op = "process_order" /\ last.order.side = SELL /\ last.order.product_id = 0
    /\ \E k \in 1..Len(last.trades) : last.trades[k].price = MaxPrice
    /\ DOMAIN order_books[0].bids = {1}
    /\ best_bid(order_books[0]) = order_books[0].bids[1][1]

(***************************************************************************)
(* The three order books called directly: ProductAwareOrderBook, OrderBook *)
(* and the MultiProductOrderBook container of OrderBooks                   *)
(***************************************************************************)
\* MultiProductOrderBook.from_product_ids
from_product_ids(product_ids) == [books |-> [pid \in product_ids |-> OrderBook(pid)]]

\* MultiProductOrderBook.get_book: the container, with the book created if missing
get_book(mpob, product_id) ==
    IF product_id \in DOMAIN mpob.books THEN mpob
    ELSE [mpob EXCEPT !.books = DictSet(@, product_id, OrderBook(product_id))]

\* MultiProductOrderBook.add_order
MultiProductOrderBook_add_order(mpob, order) ==
    [get_book(mpob, order.product_id) EXCEPT
        !.books[order.product_id] = OrderBook_add_order(@, order)]

\* MultiProductOrderBook.remove_order: the container, and what the book raised
MultiProductOrderBook_remove_order(mpob, order) ==
    LET r == OrderBook_remove_order(get_book(mpob, order.product_id).books[order.product_id],
                                    order)
    IN [mpob |-> [get_book(mpob, order.product_id) EXCEPT
                     !.books[order.product_id] = r.book],
        raised |-> r.raised]

BookEngines == {"ProductAwareOrderBook", "OrderBook", "MultiProductOrderBook"}

\* the book under test holds the book of product 0 of the catalog, an OrderBook, or
\* a container made for product 0
InitBook ==
    /\ engine \in BookEngines
    /\ products = from_products(Catalog).products
    /\ order_books = from_products(Catalog).order_books
    /\ next_order_id = from_products(Catalog).next_order_id
    /\ order_book = IF engine = "MultiProductOrderBook" THEN from_product_ids({0})
                    ELSE OrderBook(0)
    /\ mo_trades = << >>
    /\ next_trade_id = 0
    /\ last = Call("init", None, 0, 0, "", << >>, << >>, 0)
    /\ sim = Idle
    /\ settlement = Idle

\* the order objects the callers hold: unit orders of agent 1 with ids of their own,
\* for the product of the book (for either product, with the container)
BookOrderInputs ==
    IF engine = "ProductAwareOrderBook"
    THEN [id : 1..MaxOrders, agent_id : {1}, side : {BUY, SELL}, price : Prices,
          volume : {1}, product_id : {0}, time_in_force : {GTC}, timestamp : {0}]
    ELSE [id : 1..MaxOrders, agent_id : {1}, side : {BUY, SELL},
          product_id : IF engine = "OrderBook" THEN {0} ELSE ProductIds,
          volume : {1}, price : Prices, time : {0}, tif : {GTC}, status : {"ACTIVE"}]

\* the orders resting in the book under test
BookContents ==
    IF engine = "ProductAwareOrderBook" THEN BookOrders(order_books[0])
    ELSE IF engine = "OrderBook" THEN BookOrders(order_book)
    ELSE UNION {BookOrders(order_book.books[pid]) : pid \in DOMAIN order_book.books}

\* add_order(order) with an order object that is not in the book
BookAddOrder ==
    \E order \in BookOrderInputs :
        /\ engine \in BookEngines
        /\ \A o \in BookContents : o.id # order.id
        /\ IF engine = "ProductAwareOrderBook"
           THEN /\ order_books' = [order_books EXCEPT ![0] = add_order(@, order)]
                /\ UNCHANGED order_book
           ELSE /\ order_book' = IF engine = "OrderBook"
                                 THEN OrderBook_add_order(order_book, order)
                                 ELSE MultiProductOrderBook_add_order(order_book, order)
                /\ UNCHANGED order_books
        /\ last' = Call("add_order", order, order.volume, 0, "", << >>, << >>, 0)
        /\ UNCHANGED <<engine, products, next_order_id, mo_trades, next_trade_id,
                       driver_vars>>

\* remove_order(order) with any order object, in the book or not
BookRemoveOrder ==
    \E order \in BookOrderInputs :
        /\ engine \in BookEngines
        /\ IF engine = "ProductAwareOrderBook"
           THEN /\ order_books' = [order_books EXCEPT ![0] = remove_order(@, order)]
                /\ UNCHANGED order_book
                /\ last' = Call("remove_order", order, order.volume, 0, "",
                                << >>, << >>, 0)
           ELSE LET r == IF engine = "OrderBook"
                         THEN OrderBook_remove_order(order_book, order)
                         ELSE [book |-> MultiProductOrderBook_remove_order(
                                           order_book, order).mpob,
                               raised |-> MultiProductOrderBook_remove_order(
                                             order_book, order).raised]
                IN /\ order_book' = r.book
                   /\ UNCHANGED order_books
                   /\ last' = Call("remove_order", order, order.volume, 0, r.raised,
                                   << >>, << >>, 0)
        /\ UNCHANGED <<engine, products, next_order_id, mo_trades, next_trade_id,
                       driver_vars>>

NextBook ==
    \/ BookAddOrder
    \/ BookRemoveOrder

SpecBook == InitBook /\ [][NextBook]_vars

\* a second remove_order(order) on the book as the step left it raises nothing and
\* leaves it as it is
RemovedAgain(order) ==
    IF engine = "ProductAwareOrderBook"
    THEN remove_order(order_books'[0], order) = order_books'[0]
    ELSE IF engine = "OrderBook"
    THEN OrderBook_remove_order(order_book', order)
            = [book |-> order_book', raised |-> ""]
    ELSE MultiProductOrderBook_remove_order(order_book', order)
            = [mpob |-> order_book', raised |-> ""]

\* C39: Removing an absent order is a no-op: remove_order(order) for an order that
\* is not resting in the book (never added, already filled, or already removed)
\* raises no error and leaves the book unchanged, so calling remove_order twice has
\* the same effect as calling it once; this holds for OrderBook,
\* ProductAwareOrderBook and MultiProductOrderBook
C39_Step ==
    (engine \in BookEngines /\ last'.op = "remove_order") =>
       /\ last'.order \notin BookContents =>
             /\ last'.raised = ""
             /\ UNCHANGED <<order_books, order_book>>
       /\ last'.raised = "" => RemovedAgain(last'.order)
C39_RemoveAbsentNoOp == [][C39_Step]_vars

\* the same for ProductAwareOrderBook alone
C39_AwareStep == engine = "ProductAwareOrderBook" => C39_Step
C39_AwareRemoveAbsentNoOp == [][C39_AwareStep]_vars

\* the agents of the run by kind, as places in the list
MultiAgents == {i \in 1..Len(sim.agents) : sim.agents[i].is_multi_product}
SingleAgents == {i \in 1..Len(sim.agents) : ~sim.agents[i].is_multi_product}

\* the sum over the multi-product agents of the position (revenue) for a product
PositionSum(p) == SumOver(MultiAgents, [i \in MultiAgents |-> PositionOf(sim.agents[i], p)])
RevenueSum(p) == SumOver(MultiAgents, [i \in MultiAgents |-> RevenueOf(sim.agents[i], p)])

\* the sum of the one position (revenue) of the single-product agents in S
SinglePositionSum(S) ==
    SumOver(S, [i \in S |-> sim.agents[i].private_info.market_position])
SingleRevenueSum(S) ==
    SumOver(S, [i \in S |-> sim.agents[i].private_info.revenue])

\* C37 as stated: at every point of a simulation run between process_order calls,
\* for every product that has not yet been settled, the sum over all agents of the
\* market position for that product is 0 and the sum over all agents of the trading
\* revenue for that product is 0; the one position and revenue of a single-product
\* agent is counted for one product, whichever makes the sums come out
C37_ZeroSumPerProduct ==
    engine = "sim" =>
       \E f \in [SingleAgents -> ProductIds] :
          \A p \in ProductIds :
             sim.settled[p] = 0 =>
                /\ PositionSum(p) + SinglePositionSum({i \in SingleAgents : f[i] = p}) = 0
                /\ RevenueSum(p) + SingleRevenueSum({i \in SingleAgents : f[i] = p}) = 0

\* the positions of all agents, summed over all products with the one position of
\* each single-product agent counted once, add up to 0, and so do the revenues as
\* long as no product has been settled
ZeroSumTotals ==
    /\ SumOver(ProductIds, [p \in ProductIds |-> PositionSum(p)])
          + SinglePositionSum(SingleAgents) = 0
    /\ (\A p \in ProductIds : sim.settled[p] = 0) =>
          SumOver(ProductIds, [p \in ProductIds |-> RevenueSum(p)])
             + SingleRevenueSum(SingleAgents) = 0

\* C37: Zero-sum trading state: at every point of a simulation run between
\* process_order calls the positions of all agents, summed over all products with
\* the one position of each single-product agent counted once, add up to 0, and so
\* do the revenues as long as no product has been settled; every process_order call
\* changes the sums of the positions and of the revenues for its product, the
\* single-product agents included, by 0, and no entry of another product (each trade
\* adds +v and +v x p to the seller and -v and -v x p to the buyer)
C37_Step ==
    engine = "sim" =>
       /\ ZeroSumTotals'
       /\ last'.op = "process_order" =>
             \A p \in ProductIds :
                LET single_position == SinglePositionSum(SingleAgents)'
                                          - SinglePositionSum(SingleAgents)
                    single_revenue == SingleRevenueSum(SingleAgents)'
                                         - SingleRevenueSum(SingleAgents)
                IN IF p = last'.order.product_id
                   THEN /\ (PositionSum(p)' - PositionSum(p)) + single_position = 0
                        /\ (RevenueSum(p)' - RevenueSum(p)) + single_revenue = 0
                   ELSE /\ PositionSum(p)' = PositionSum(p)
                        /\ RevenueSum(p)' = RevenueSum(p)
C37_ZeroSum == [][C37_Step]_vars

\* the single-product agent has traded in both products, one unit each way, and
\* holds 0; the multi-product agent holds +1 in one product and -1 in the other
C37_Witness ==
    /\ engine = "sim"
    /\ sim.agents[2].private_info.market_position = 0
    /\ sim.agents[2].private_info.revenue # 0
    /\ PositionOf(sim.agents[1], 0) # 0
    /\ PositionOf(sim.agents[1], 0) + PositionOf(sim.agents[1], 1) = 0

\* C38: Rejection leaves state unchanged: when
\* MultiProductMarketOperator.process_order fails (product id unknown, or product
\* not open at t), the operator state is exactly as before the call - next_order_id
\* is not consumed, no book is changed, no product status is changed - and the
\* submitted order's id and timestamp are not overwritten
C38_Step ==
    (engine = "multi" /\ last'.op = "process_order") =>
       /\ (\/ last'.order.product_id \notin DOMAIN order_books
           \/ ~is_open(order_books[last'.order.product_id], last'.t)) =>
             last'.raised # ""
       /\ last'.raised # "" =>
             /\ UNCHANGED <<products, order_books, next_order_id>>
             /\ last'.trades = << >>
             /\ last'.order.id \in SubmittedIds
             /\ \A c \in ProcessOrderCalls : last'.order.timestamp = c[1].timestamp
C38_RejectionFrame == [][C38_Step]_vars

\* with two orders accepted and resting, a call for a product that is not in the
\* catalog failed: the counter is still 3, the books hold the two orders, and the
\* caller's order has the id 1 it was submitted with, not the operator's next id
C38_Witness ==
    /\ engine = "multi"
    /\ last.op = "process_order" /\ last.raised # ""
    /\ last.order.product_id \notin DOMAIN order_books
    /\ next_order_id = 3
    /\ Cardinality(AllResting(order_books)) = 2
    /\ last.order.id = 1

====
